---------------------------- MODULE Spec2Model ----------------------------
(***************************************************************************)
(* The incrementally rehashing dictionary of the key-value store           *)
(* (collections/src/dict.rs on top of collections/src/hash_table.rs).      *)
(*                                                                         *)
(* A HashTable is a record [buckets, items, mask]; a bucket chain is a     *)
(* sequence of entries [key, value] (front of the LinkedList first).  An   *)
(* Option is a sequence of length 0 (None) or 1 (Some).                    *)
(***************************************************************************)
EXTENDS Integers, Sequences, FiniteSets, TLC

(***************************************************************************)
(* Bounds of the exploration.                                              *)
(***************************************************************************)
\* how many of the keys of KeySeq the dictionary is driven with
NumKeys == 10
\* how many calls of one run remove a key or insert a key again
MaxEdits == 2
\* the same, for the runs that insert all the keys of it_works_big_time
ScenarioEdits == 1
\* how many calls a run makes on a HashTable of its own
MaxTableCalls == 3
\* how many arguments the requests given to the wire codec have at most
MaxArgs == 3
\* how many commands a run gives to handle_and_encode_request
MaxCmds == 3
\* how many frames the peer of a Connection sends
MaxSends == 2
\* how many connections the server of bin/server.rs accepts in a run
MaxAccepts == 3
\* how many times the clients of that server send bytes
MaxClientSends == 2
\* how many request frames a client puts into one buffer
MaxFrames == 3
\* how many calls are made on one List
MaxListCalls == 5
\* how many keys the Dict of crates/collections is driven with, and how many
\* calls are made on it
NumRehashKeys == 3
MaxRehashCalls == 6

(***************************************************************************)
(* Program constants.                                                      *)
(***************************************************************************)
DEFAULT_BUCKET_SIZE == 4
MAX_ENTRIES_PER_BUCKET == 2
MAX_REHASH_OPS == 2
\* DEFAULT_BUCKET_SIZE of crates/collections/src/hashmap/hash_table.rs
HASHMAP_DEFAULT_BUCKET_SIZE == 2
\* the number of keys test::it_works_big_time inserts
TestKeys == 18
\* protocol.rs: 32 << 20
MAX_ARGS == 33554432
RES_NX == 1
RES_OK == 0
RES_ERR == -1

None == <<>>
Some(x) == <<x>>

\* the keys of Dict's test it_works_big_time, "0".."17", in that order
KeySeq ==
  << "0", "1", "2", "3", "4", "5", "6", "7", "8", "9",
     "10", "11", "12", "13", "14", "15", "16", "17" >>

Keys == { KeySeq[i] : i \in 1..NumKeys }
Values == { "a", "b" }

(***************************************************************************)
(* HashTable::hash: DefaultHasher::default() is SipHash-1-3 keyed with     *)
(* (0, 0), fed the key's bytes.  The table holds the low 6 bits of the     *)
(* 64-bit digest of each key; a table of the explored range has at most    *)
(* 32 buckets, so `hash as usize & mask` reads no higher bit.              *)
(***************************************************************************)
hash(key) ==
  CASE key = "0" -> 46 [] key = "1" -> 21 [] key = "2" -> 13
    [] key = "3" -> 22 [] key = "4" -> 48 [] key = "5" -> 16
    [] key = "6" -> 18 [] key = "7" -> 34 [] key = "8" -> 15
    [] key = "9" -> 9  [] key = "10" -> 16 [] key = "11" -> 35
    [] key = "12" -> 61 [] key = "13" -> 14 [] key = "14" -> 42
    [] key = "15" -> 18 [] key = "16" -> 52 [] key = "17" -> 24
    [] key = "???" -> 4

\* bitwise AND of two naturals
RECURSIVE BitAnd(_, _)
BitAnd(a, b) ==
  IF a = 0 \/ b = 0 THEN 0
  ELSE (a % 2) * (b % 2) + 2 * BitAnd(a \div 2, b \div 2)

(***************************************************************************)
(* HashTable                                                               *)
(***************************************************************************)
EmptyChains(n) == [i \in 1..n |-> <<>>]

EMPTY_TABLE == [buckets |-> <<>>, items |-> 0, mask |-> 0]

new_with_buckets(size) ==
  [buckets |-> EmptyChains(size),
   items   |-> 0,
   mask    |-> IF size = 0 THEN 0 ELSE size - 1]

HashTableDefault == new_with_buckets(DEFAULT_BUCKET_SIZE)

is_empty(t) == t.items = 0

bucket_count(t) == Len(t.buckets)

\* items.checked_div(bucket_count).unwrap_or(0): integer division
load_factor(t) ==
  IF bucket_count(t) = 0 THEN 0 ELSE t.items \div bucket_count(t)

\* index (0-based) of the bucket a key is looked up in
idx(t, key) == BitAnd(hash(key), t.mask)

\* position (1-based) of the first entry of chain b with the key, 0 if none
FindKey(b, key) ==
  LET hits == { p \in 1..Len(b) : b[p].key = key }
  IN IF hits = {} THEN 0 ELSE CHOOSE p \in hits : \A q \in hits : p <= q

RemoveAt(b, p) == [j \in 1..(Len(b) - 1) |-> IF j < p THEN b[j] ELSE b[j + 1]]

\* HashTable::insert with a slip: a table without buckets is given the default
\* number of buckets and the entry is stored
HtInsertAllocates(t, node) ==
  LET t1 == IF bucket_count(t) = 0 THEN HashTableDefault ELSE t
      i  == BitAnd(hash(node.key), t1.mask)
      b  == t1.buckets[i + 1]
      p  == FindKey(b, node.key)
  IN IF p # 0
     THEN [t   |-> [t1 EXCEPT !.buckets[i + 1][p].value = node.value],
           old |-> Some(b[p].value)]
     ELSE [t   |-> [t1 EXCEPT !.buckets[i + 1] = Append(b, node),
                              !.items = @ + 1],
           old |-> None]

\* HashTable::insert: [t |-> the table afterwards, old |-> the returned Option]
HtInsert(t, node) ==
  LET i == idx(t, node.key) IN
  IF i >= bucket_count(t) THEN [t |-> t, old |-> None]
  ELSE LET b == t.buckets[i + 1]
           p == FindKey(b, node.key)
       IN IF p # 0
          THEN [t   |-> [t EXCEPT !.buckets[i + 1][p].value = node.value],
                old |-> Some(b[p].value)]
          ELSE [t   |-> [t EXCEPT !.buckets[i + 1] = Append(b, node),
                                  !.items = @ + 1],
                old |-> None]

\* HashTable::get and get_mut: the Option of the entry found
HtGet(t, key) ==
  LET i == idx(t, key) IN
  IF i >= bucket_count(t) THEN None
  ELSE LET p == FindKey(t.buckets[i + 1], key)
       IN IF p = 0 THEN None ELSE Some(t.buckets[i + 1][p])

HtGetMut(t, key) == HtGet(t, key)

\* HashTable::remove: [t |-> the table afterwards, ret |-> the returned Option]
HtRemove(t, key) ==
  LET i == idx(t, key) IN
  IF i >= bucket_count(t) THEN [t |-> t, ret |-> None]
  ELSE LET b == t.buckets[i + 1]
           p == FindKey(b, key)
       IN IF p = 0 THEN [t |-> t, ret |-> None]
          ELSE [t   |-> [t EXCEPT !.buckets[i + 1] = RemoveAt(b, p)],
                ret |-> Some(b[p])]

(***************************************************************************)
(* Dict: a record [primary, secondary, migrate_pos]                        *)
(***************************************************************************)
DictDefault ==
  [primary     |-> HashTableDefault,
   secondary   |-> EMPTY_TABLE,
   migrate_pos |-> -1]

\* `(x as usize) < n` and `(x as usize) == n` for an isize x and a Vec length n:
\* a negative x casts to a value above isize::MAX, which no Vec length reaches
UsizeLess(x, n) == x >= 0 /\ x < n
UsizeEq(x, n) == x >= 0 /\ x = n

\* Dict::size (the counters stay far below the width of usize)
size(d) == d.primary.items + d.secondary.items

valid_migrate_pos(d) ==
  d.migrate_pos > -1 /\ UsizeLess(d.migrate_pos, bucket_count(d.secondary))

\* trigger_migration with a slip: the new primary table is as large as the old
trigger_migration_same_size(d) ==
  [primary     |-> new_with_buckets(bucket_count(d.primary)),
   secondary   |-> d.primary,
   migrate_pos |-> 0]

\* trigger_migration with a slip: the new primary table is half as large again
trigger_migration_grows_by_half(d) ==
  [primary     |-> new_with_buckets(bucket_count(d.primary)
                                    + bucket_count(d.primary) \div 2),
   secondary   |-> d.primary,
   migrate_pos |-> 0]

\* Dict::trigger_migration, entered with an empty secondary table
trigger_migration(d) ==
  [primary     |-> new_with_buckets(bucket_count(d.primary) * 2),
   secondary   |-> d.primary,
   migrate_pos |-> 0]

\* the inner loop with a slip: a moved entry keeps its bucket index instead of
\* being hashed into the primary table
RECURSIVE PopLoopKeepsIndex(_, _)
PopLoopKeepsIndex(d, ops) ==
  LET b == d.secondary.buckets[d.migrate_pos + 1] IN
  IF ops < MAX_REHASH_OPS /\ b # <<>>
  THEN PopLoopKeepsIndex(
         [d EXCEPT !.primary.buckets[d.migrate_pos + 1] = Append(@, Head(b)),
                   !.primary.items = @ + 1,
                   !.secondary.buckets[d.migrate_pos + 1] = Tail(b),
                   !.secondary.items = @ - 1],
         ops + 1)
  ELSE [d |-> d, ops |-> ops]

\* the inner loop of Dict::migrate: pops the cursor's bucket while the budget lasts
RECURSIVE PopLoop(_, _)
PopLoop(d, ops) ==
  LET b == d.secondary.buckets[d.migrate_pos + 1] IN
  IF ops < MAX_REHASH_OPS /\ b # <<>>
  THEN PopLoop([d EXCEPT !.primary = HtInsert(d.primary, Head(b)).t,
                         !.secondary.buckets[d.migrate_pos + 1] = Tail(b),
                         !.secondary.items = @ - 1],
               ops + 1)
  ELSE [d |-> d, ops |-> ops]

\* the outer loop with a slip: stepping over an empty bucket costs one unit of
\* the budget
RECURSIVE MigrateLoopCountsSkips(_, _)
MigrateLoopCountsSkips(d, ops) ==
  IF ~valid_migrate_pos(d) \/ ops >= MAX_REHASH_OPS THEN d
  ELSE IF d.secondary.buckets[d.migrate_pos + 1] = <<>>
  THEN MigrateLoopCountsSkips([d EXCEPT !.migrate_pos = @ + 1], ops + 1)
  ELSE LET r == PopLoop(d, ops) IN
       IF r.ops = MAX_REHASH_OPS
       THEN IF r.d.secondary.buckets[r.d.migrate_pos + 1] = <<>>
            THEN [r.d EXCEPT !.migrate_pos = @ + 1]
            ELSE r.d
       ELSE MigrateLoopCountsSkips([r.d EXCEPT !.migrate_pos = @ + 1], r.ops)

\* the outer loop with a slip: once the budget is spent the cursor moves on
\* whether or not the bucket has been emptied
RECURSIVE MigrateLoopAlwaysAdvances(_, _)
MigrateLoopAlwaysAdvances(d, ops) ==
  IF ~valid_migrate_pos(d) THEN d
  ELSE IF d.secondary.buckets[d.migrate_pos + 1] = <<>>
  THEN MigrateLoopAlwaysAdvances([d EXCEPT !.migrate_pos = @ + 1], ops)
  ELSE LET r == PopLoop(d, ops) IN
       IF r.ops = MAX_REHASH_OPS
       THEN [r.d EXCEPT !.migrate_pos = @ + 1]
       ELSE MigrateLoopAlwaysAdvances([r.d EXCEPT !.migrate_pos = @ + 1],
                                      r.ops)


\* the outer loop of Dict::migrate
RECURSIVE MigrateLoop(_, _)
MigrateLoop(d, ops) ==
  IF ~valid_migrate_pos(d) THEN d
  ELSE IF d.secondary.buckets[d.migrate_pos + 1] = <<>>
  THEN MigrateLoop([d EXCEPT !.migrate_pos = @ + 1], ops)
  ELSE LET r == PopLoop(d, ops) IN
       IF r.ops = MAX_REHASH_OPS
       THEN IF r.d.secondary.buckets[r.d.migrate_pos + 1] = <<>>
            THEN [r.d EXCEPT !.migrate_pos = @ + 1]
            ELSE r.d
       ELSE MigrateLoop([r.d EXCEPT !.migrate_pos = @ + 1], r.ops)

\* Retire with a slip: the cursor running off the table is not tested
RetireWhenCounted(d) ==
  IF is_empty(d.secondary)
  THEN [d EXCEPT !.secondary = EMPTY_TABLE, !.migrate_pos = -1]
  ELSE d

\* Retire with a slip: the cursor is reset and the table is kept
RetireKeepsTable(d) ==
  IF is_empty(d.secondary)
     \/ UsizeEq(d.migrate_pos, bucket_count(d.secondary))
  THEN [d EXCEPT !.migrate_pos = -1]
  ELSE d

\* the end of Dict::migrate: the secondary table is retired
Retire(d) ==
  IF is_empty(d.secondary)
     \/ UsizeEq(d.migrate_pos, bucket_count(d.secondary))
  THEN [d EXCEPT !.secondary = EMPTY_TABLE, !.migrate_pos = -1]
  ELSE d

\* Dict::migrate
migrate(d) ==
  IF is_empty(d.secondary) /\ d.migrate_pos < 0 THEN d
  ELSE Retire(MigrateLoop(d, 0))

\* the growth test with a slip: it reads the integer load_factor()
NeedsMigrationByLoadFactor(d) ==
  load_factor(d.primary) > MAX_ENTRIES_PER_BUCKET
  /\ d.migrate_pos = -1

\* the growth test of Dict::insert
NeedsMigration(d) ==
  bucket_count(d.primary) * MAX_ENTRIES_PER_BUCKET < d.primary.items
  /\ d.migrate_pos = -1

\* Dict::insert with a slip: the migration step comes first, as in get
DictInsertMigratesFirst(d, key, value) ==
  LET d0 == migrate(d)
      r  == HtInsert(d0.primary, [key |-> key, value |-> value])
      d1 == [d0 EXCEPT !.primary = r.t]
      tr == bucket_count(d1.primary) * MAX_ENTRIES_PER_BUCKET < d1.primary.items
            /\ d1.migrate_pos = -1
      d2 == IF tr
            THEN [primary     |-> new_with_buckets(bucket_count(d1.primary) * 2),
                  secondary   |-> d1.primary,
                  migrate_pos |-> 0]
            ELSE d1
  IN [d |-> d2, old |-> r.old, triggered |-> tr,
      n |-> d2.secondary.items, panic |-> ""]

\* Dict::insert on a dictionary whose primary table has buckets:
\* [d, old, triggered, n, panic], n being secondary.items as trigger_migration
\* left it
DictInsert(d, key, value) ==
  LET r  == HtInsert(d.primary, [key |-> key, value |-> value])
      d1 == [d EXCEPT !.primary = r.t]
      tr == NeedsMigration(d1)
      bad == tr /\ ~is_empty(d1.secondary)
      d2 == IF tr THEN trigger_migration(d1) ELSE d1
  IN IF bad
     THEN [d |-> d1, old |-> r.old, triggered |-> FALSE, n |-> 0,
           panic |-> "triggered rehash on non-empty secondary table"]
     ELSE [d |-> migrate(d2), old |-> r.old, triggered |-> tr,
           n |-> d2.secondary.items, panic |-> ""]

\* primary.get(key).or_else(|| secondary.get(key)), of get and get_mut
Lookup(d, key) ==
  LET p == HtGet(d.primary, key)
  IN IF p # None THEN p ELSE HtGet(d.secondary, key)

LookupMut(d, key) ==
  LET p == HtGetMut(d.primary, key)
  IN IF p # None THEN p ELSE HtGetMut(d.secondary, key)

\* Dict::get: [d |-> the dictionary afterwards, ret |-> the returned Option]
DictGet(d, key) ==
  LET d1 == migrate(d) IN [d |-> d1, ret |-> Lookup(d1, key)]

\* Dict::get_mut (the fields of Entry are private to the crate: no caller
\* writes through the reference)
DictGetMut(d, key) ==
  LET d1 == migrate(d) IN [d |-> d1, ret |-> LookupMut(d1, key)]

\* Dict::size: reads the two counters of a shared reference
DictSize(d) == [d |-> d, ret |-> size(d)]

\* Dict::remove
DictRemove(d, key) ==
  LET d1 == migrate(d)
      p  == HtRemove(d1.primary, key)
      s  == HtRemove(d1.secondary, key)
  IN IF p.ret # None
     THEN [d |-> [d1 EXCEPT !.primary = p.t], ret |-> p.ret]
     ELSE [d |-> [d1 EXCEPT !.secondary = s.t], ret |-> s.ret]

(***************************************************************************)
(* The dictionary driven by arbitrary calls.                               *)
(*   dict      the Dict                                                    *)
(*   panic     the message of the assertion that ended the run, or ""      *)
(*   expect    key -> Option of the value of the latest insert of the key  *)
(*             that no remove of the key followed                          *)
(*   fresh     how many keys of KeySeq have been inserted at least once    *)
(*   edits     removes and repeated inserts made so far                    *)
(*   triggers  how often trigger_migration ran                             *)
(*   migN      secondary.items right after the latest trigger_migration    *)
(*   migCalls  migrating calls (insert, get, get_mut, remove) made during  *)
(*             the latest migration, the triggering insert included        *)
(*   keyLimit, editLimit   the bounds of the run, fixed by Init            *)
(***************************************************************************)
VARIABLES dict, panic, expect, fresh, edits, triggers, migN, migCalls,
          keyLimit, editLimit

dictVars == <<dict, panic, expect, fresh, edits, triggers, migN, migCalls,
              keyLimit, editLimit>>

(***************************************************************************)
(* A HashTable used on its own, as the tests of hash_table.rs use it.      *)
(*   table   the HashTable                                                 *)
(*   tcall   the latest call: [op, key, ret, pre], pre being the table     *)
(*           the call found                                                *)
(*   tcalls  calls made so far                                             *)
(***************************************************************************)
VARIABLES table, tcall, tcalls

tableVars == <<table, tcall, tcalls>>

(***************************************************************************)
(* The wire codec applied to one request.                                  *)
(*   cmds    the argument list of the request                              *)
(*   frame   the bytes write_message made of it, <<>> before               *)
(*   parsed  what parse_request made of the frame, NotParsed before        *)
(* and to the bytes a peer has put on the wire.                            *)
(*   items   the fields the peer is sending: a count, then a length and    *)
(*           the bytes of each argument                                    *)
(*   wire    the bytes of them that have arrived                           *)
(*   onWire  what parse_request made of wire, NotParsed before             *)
(* and to one response.                                                    *)
(*   reply   the latest call of serialize: [status, data, at, buf], at     *)
(*           the length of the buffer it was given and buf the buffer      *)
(*           afterwards; NoReply before                                    *)
(* and to a buffer of several requests.                                    *)
(*   stream  [reqs, more, buf]: the requests whose frames were put into    *)
(*           one buffer, the bytes that followed them, and what is left of *)
(*           the buffer; NoStream before                                   *)
(*   drained the results of the calls of parse_request made on the buffer, *)
(*           each followed by the drain of the bytes it consumed           *)
(***************************************************************************)
VARIABLES cmds, frame, parsed, items, wire, onWire, reply, stream, drained

codecVars == <<cmds, frame, parsed, items, wire, onWire, reply, stream,
               drained>>

(***************************************************************************)
(* The store behind the commands (storage.rs: the static MAP) and the      *)
(* commands applied to it.                                                 *)
(*   MAP      the HashMap, as the set of its <<key, value>> pairs          *)
(*   out      the buffer handle_and_encode_request appends to              *)
(*   live     key -> Option of the value of the latest `set` of the key    *)
(*            that no `del` of the key followed                            *)
(*   gone     the keys whose latest `set` or `del` was a `del` that found  *)
(*            the key                                                      *)
(*   ncmds    commands handled so far                                      *)
(*   lastCmd  the latest command: [kind, cmd, pre, at], pre being the MAP  *)
(*            and at the length of out that the command found              *)
(***************************************************************************)
VARIABLES MAP, out, live, gone, ncmds, lastCmd

storeVars == <<MAP, out, live, gone, ncmds, lastCmd>>

(***************************************************************************)
(* One Connection (main/src/connection.rs), its socket and its peer.       *)
(*   conn      the Connection: [state, incoming, outgoing]                 *)
(*   rx        the bytes the peer has sent and the server has not read     *)
(*   eof       the peer has closed its side                                *)
(*   tx        the bytes the socket has accepted from the server           *)
(*   peer      the rest of a frame the peer has sent in part               *)
(*   sends     frames the peer has begun to send                           *)
(*   last      the latest step: "new", "peer", "on_read", "on_write" or    *)
(*             "handle_close"                                              *)
(*   lastRead  the latest on_read: [io, buf, parse, served, wrote, ret],   *)
(*             io the result of its last socket read, buf the inbound      *)
(*             buffer when the reads were over, parse the last result of   *)
(*             parse_request, served the requests handled, wrote the       *)
(*             number of bytes written, ret Ok or Err                      *)
(*   lastWrite the call of on_write of the latest step of the server, if   *)
(*             it made one: [io, pre, ret], io the result of the socket    *)
(*             write, pre the Connection the call found, ret Ok or Err     *)
(*   cpanic    the message of the assertion of Connection that fired       *)
(***************************************************************************)
VARIABLES conn, rx, eof, tx, peer, sends, last, lastRead, lastWrite, cpanic

connVars == <<conn, rx, eof, tx, peer, sends, last, lastRead, lastWrite,
              cpanic>>

(***************************************************************************)
(* The server process of bin/server.rs.                                    *)
(*   srvConns  the connection table `map`, as the set of its connections   *)
(*             [tok, state, incoming, outgoing, rx, eof]: rx the bytes the *)
(*             client has sent and the server has not read, eof the client *)
(*             having closed                                               *)
(*   tokgen    the TokenGen: [next, freed]                                 *)
(*   crashed   the message of the panic that ended the process, or ""      *)
(*   accepts   connections accepted so far                                 *)
(*   csends    sends made by the clients so far                            *)
(***************************************************************************)
VARIABLES srvConns, tokgen, crashed, accepts, csends

serverVars == <<srvConns, tokgen, crashed, accepts, csends>>

(***************************************************************************)
(* The singly linked List of crates/collections driven by arbitrary calls. *)
(*   list     the List: [head, len], head an Option of a node              *)
(*            [key, value, next]                                           *)
(*   lcall    the latest call: [op, ret, pre, was], pre being the List and *)
(*            was the value of pending the call found                      *)
(*   lcalls   calls made so far                                            *)
(*   pending  the entries pushed and not popped yet, oldest first          *)
(*   pushes   pushes made so far                                           *)
(*   pops     pops that returned an entry so far                           *)
(***************************************************************************)
VARIABLES list, lcall, lcalls, pending, pushes, pops

listVars == <<list, lcall, lcalls, pending, pushes, pops>>

(***************************************************************************)
(* The Dict of crates/collections (one bucket moved per call) driven by    *)
(* insert and get calls.                                                   *)
(*   rdict    the Dict: [primary, secondary, rehash_idx]                   *)
(*   rexpect  key -> Option of the value of the latest insert of the key   *)
(*   rcall    the latest call: [op, key, ret]                              *)
(*   rcalls   calls made so far                                            *)
(*   rpanic   the message of the panic that ended the run, or ""           *)
(***************************************************************************)
VARIABLES rdict, rexpect, rcall, rcalls, rpanic

rehashVars == <<rdict, rexpect, rcall, rcalls, rpanic>>

vars == <<dictVars, tableVars, codecVars, storeVars, connVars, serverVars,
          listVars, rehashVars>>

\* the variables the calls on the Dict leave alone
notDict == <<tableVars, codecVars, storeVars, connVars, serverVars,
  listVars, rehashVars>>

\* the variables the calls on the HashTable leave alone
notTable == <<dictVars, codecVars, storeVars, connVars, serverVars,
  listVars, rehashVars>>

\* the variables the codec leaves alone
notCodec == <<dictVars, tableVars, storeVars, connVars, serverVars,
  listVars, rehashVars>>

\* the variables the commands leave alone
notStore == <<dictVars, tableVars, codecVars, connVars, serverVars,
  listVars, rehashVars>>

\* the variables the Connection and its peer leave alone: all but the MAP
notConn == <<dictVars, tableVars, codecVars, out, live, gone, ncmds, lastCmd,
             serverVars, listVars, rehashVars>>

\* the variables the calls on the List leave alone
notList == <<dictVars, tableVars, codecVars, storeVars, connVars, serverVars,
             rehashVars>>

\* the variables the calls on the Dict of crates/collections leave alone
notRehash == <<dictVars, tableVars, codecVars, storeVars, connVars,
               serverVars, listVars>>

\* the variables the server process leaves alone
notServer == <<dictVars, tableVars, codecVars, storeVars, connVars,
  listVars, rehashVars>>

NoCall == [op |-> "new", key |-> "", ret |-> None, pre |-> EMPTY_TABLE]

\* List::new
ListNew == [head |-> None, len |-> 0]

NoListCall == [op |-> "new", ret |-> None, pre |-> ListNew, was |-> <<>>]

\* a List nothing was pushed to
ListIdle ==
  /\ list = ListNew /\ lcall = NoListCall /\ lcalls = 0
  /\ pending = <<>> /\ pushes = 0 /\ pops = 0

\* hashmap::HashTable::new_with_buckets (cap is never 0 here)
hashmap_new_with_buckets(cap) ==
  [buckets |-> EmptyChains(cap), items |-> 0, mask |-> cap - 1]

\* hashmap::Dict::default
RehashDictDefault ==
  [primary    |-> hashmap_new_with_buckets(HASHMAP_DEFAULT_BUCKET_SIZE),
   secondary  |-> hashmap_new_with_buckets(2 * HASHMAP_DEFAULT_BUCKET_SIZE),
   rehash_idx |-> -1]

NoRehashCall == [op |-> "new", key |-> "", ret |-> None]

\* the keys the Dict of crates/collections is driven with
RehashKeys == { KeySeq[i] : i \in 1..NumRehashKeys }

\* a Dict of crates/collections no call was made on
RehashIdle ==
  /\ rdict = RehashDictDefault
  /\ rexpect = [k \in RehashKeys |-> None]
  /\ rcall = NoRehashCall /\ rcalls = 0 /\ rpanic = ""

\* no HashTable of its own is in use
TableIdle == table = EMPTY_TABLE /\ tcall = NoCall /\ tcalls = 0

NotParsed == [tag |-> "none", val |-> <<>>, want |-> 0, got |-> 0]

\* no request is given to the codec
\* serialize has not been called
NoReply == [status |-> 0, data |-> <<>>, at |-> 0, buf |-> <<>>]

\* no buffer of several requests is in use
NoStream == [reqs |-> <<>>, more |-> <<>>, buf |-> <<>>]

CodecIdle ==
  /\ cmds = <<>> /\ frame = <<>> /\ parsed = NotParsed
  /\ items = <<>> /\ wire = <<>> /\ onWire = NotParsed
  /\ reply = NoReply
  /\ stream = NoStream /\ drained = <<>>

\* Connection::new
NewConnection == [state |-> "WantRead", incoming |-> <<>>, outgoing |-> <<>>]

NoRead == [io |-> "none", buf |-> <<>>, parse |-> "none", served |-> 0,
           wrote |-> 0, ret |-> "Ok"]

\* on_write was not called
NoWrite ==
  [io |-> [kind |-> "none", n |-> 0], pre |-> NewConnection, ret |-> "Ok"]

\* a Connection that has just been accepted
ConnInit ==
  /\ conn = NewConnection
  /\ rx = <<>>
  /\ eof = FALSE
  /\ tx = <<>>
  /\ peer = <<>>
  /\ sends = 0
  /\ last = "new"
  /\ lastRead = NoRead
  /\ lastWrite = NoWrite
  /\ cpanic = ""

\* eventloop::token::TokenGen::new
TokenGenNew == [next |-> 0, freed |-> <<>>]

\* main before its first poll: no connection, nothing has gone wrong
ServerInit ==
  /\ srvConns = {}
  /\ tokgen = TokenGenNew
  /\ crashed = ""
  /\ accepts = 0
  /\ csends = 0

\* the keys the commands name: "a" and "m"
StoreKeys == { <<97>>, <<109>> }

NoCmd == [kind |-> "none", cmd |-> <<>>, pre |-> {}, at |-> 0]

\* the process has started: Mutex::new(HashMap::with_hasher(..))
StoreInit ==
  /\ MAP = {}
  /\ out = <<>>
  /\ live = [k \in StoreKeys |-> None]
  /\ gone = {}
  /\ ncmds = 0
  /\ lastCmd = NoCmd

AllKeys == { KeySeq[i] : i \in 1..Len(KeySeq) } \cup {"???"}

\* the keys a call may name: those in use and one that is never inserted
CallKeys == { KeySeq[i] : i \in 1..keyLimit } \cup {"???"}

LookupKeys == { KeySeq[1], "???" }

InitDict ==
  /\ dict = DictDefault
  /\ panic = ""
  /\ expect = [k \in AllKeys |-> None]
  /\ fresh = 0
  /\ edits = 0
  /\ triggers = 0
  /\ migN = 0
  /\ migCalls = 0

\* no Dict is in use
DictIdle == InitDict /\ keyLimit = 0 /\ editLimit = 0

Init ==
  /\ InitDict
  /\ keyLimit = NumKeys
  /\ editLimit = MaxEdits
  /\ TableIdle /\ CodecIdle /\ StoreInit /\ ConnInit
  /\ ServerInit /\ ListIdle /\ RehashIdle

ScenarioInit ==
  /\ InitDict
  /\ keyLimit = TestKeys
  /\ editLimit = ScenarioEdits
  /\ TableIdle /\ CodecIdle /\ StoreInit /\ ConnInit
  /\ ServerInit /\ ListIdle /\ RehashIdle

Migrating(d) == d.migrate_pos # -1

\* bookkeeping of a call that ran migrate(); n is secondary.items as
\* trigger_migration left it when the call triggered
CountCall(triggered, n) ==
  /\ triggers' = IF triggered THEN triggers + 1 ELSE triggers
  /\ migN' = IF triggered THEN n ELSE migN
  /\ migCalls' = IF triggered THEN 1
                 ELSE IF Migrating(dict) THEN migCalls + 1 ELSE migCalls

Insert(key, value) ==
  /\ panic = ""
  /\ IF bucket_count(dict.primary) = 0
     THEN /\ panic' = "inserting into empty dict"
          /\ UNCHANGED <<dict, expect, triggers, migN, migCalls>>
     ELSE LET r == DictInsert(dict, key, value) IN
          /\ dict' = r.d
          /\ panic' = r.panic
          /\ expect' = [expect EXCEPT ![key] = Some(value)]
          /\ CountCall(r.triggered, r.n)

\* a key enters for the first time: the keys enter in the order of KeySeq,
\* each with itself as its value (as in it_works_big_time)
InsertFresh ==
  /\ fresh < keyLimit
  /\ fresh' = fresh + 1
  /\ Insert(KeySeq[fresh + 1], KeySeq[fresh + 1])
  /\ UNCHANGED <<edits, keyLimit, editLimit>>
  /\ UNCHANGED notDict

\* the keys that have been inserted at least once
Entered == { KeySeq[i] : i \in 1..fresh }

\* the value a repeated insert writes: successive edits write different
\* values, none of them the value the key entered with
EditValue(n) == IF n % 2 = 0 THEN "a" ELSE "b"

\* a key that has been inserted before is inserted again
InsertAgain ==
  \E key \in Entered :
    /\ edits < editLimit
    /\ edits' = edits + 1
    /\ Insert(key, EditValue(edits))
    /\ UNCHANGED <<fresh, keyLimit, editLimit>>
    /\ UNCHANGED notDict

\* get and get_mut change the dictionary by their migration step alone, which
\* does not read the key: a key that is stored and one that never is stand
\* for all
Get ==
  \E key \in LookupKeys :
    /\ panic = ""
    /\ dict' = DictGet(dict, key).d
    /\ CountCall(FALSE, 0)
    /\ UNCHANGED <<panic, expect, fresh, edits, keyLimit, editLimit>>
    /\ UNCHANGED notDict

GetMut ==
  \E key \in LookupKeys :
    /\ panic = ""
    /\ dict' = DictGetMut(dict, key).d
    /\ CountCall(FALSE, 0)
    /\ UNCHANGED <<panic, expect, fresh, edits, keyLimit, editLimit>>
    /\ UNCHANGED notDict

\* a key that has been inserted before, or the key that never is, is removed
Remove ==
  \E key \in Entered \cup {"???"} :
    /\ panic = ""
    /\ edits < editLimit
    /\ edits' = edits + 1
    /\ dict' = DictRemove(dict, key).d
    /\ expect' = [expect EXCEPT ![key] = None]
    /\ CountCall(FALSE, 0)
    /\ UNCHANGED <<panic, fresh, keyLimit, editLimit>>
    /\ UNCHANGED notDict

Size ==
  /\ panic = ""
  /\ dict' = DictSize(dict).d
  /\ UNCHANGED <<panic, expect, fresh, edits, triggers, migN, migCalls,
                 keyLimit, editLimit>>
  /\ UNCHANGED notDict

Next == InsertFresh \/ InsertAgain \/ Get \/ GetMut \/ Remove \/ Size

\* arbitrary calls on a few keys
Spec == Init /\ [][Next]_vars

\* the keys "0".."17" inserted in order, other calls interleaved
ScenarioSpec == ScenarioInit /\ [][Next]_vars

(***************************************************************************)
(* What the tables hold.                                                   *)
(***************************************************************************)
\* the places <<bucket, position>> of the entries of table t
Slots(t) ==
  UNION { { <<i, j>> : j \in 1..Len(t.buckets[i]) } : i \in 1..Len(t.buckets) }

\* the number of entries in the chains of t
ChainTotal(t) == Cardinality(Slots(t))

\* the number of entries of t with the key
CountKey(t, key) ==
  Cardinality({ s \in Slots(t) : t.buckets[s[1]][s[2]].key = key })

\* the keys the dictionary is expected to hold
Stored == { k \in AllKeys : expect[k] # None }

(***************************************************************************)
(* C1: get(k) returns the value of the latest insert(k, _) that no         *)
(* remove(k) followed, and None when there is none, for every key; also    *)
(* when the key was inserted again while its older entry was still in the  *)
(* secondary table.                                                        *)
(***************************************************************************)
C1_GetReturnsLatestInsert ==
  panic = "" =>
    \A k \in CallKeys :
      LET r == DictGet(dict, k).ret IN
      IF expect[k] = None THEN r = None
      ELSE r # None /\ r[1].key = k /\ r[1].value = expect[k][1]

(***************************************************************************)
(* C2: size() is the number of keys currently in the dictionary (distinct  *)
(* keys inserted minus keys removed).                                      *)
(***************************************************************************)
C2_SizeCountsKeys ==
  panic = "" => DictSize(dict).ret = Cardinality(Stored)

(***************************************************************************)
(* C3: while a migration is active, every key of the dictionary has an     *)
(* entry in exactly one of the primary and the secondary table.            *)
(***************************************************************************)
C3_OneTablePerKey ==
  (panic = "" /\ Migrating(dict)) =>
    \A k \in Stored :
      CountKey(dict.primary, k) + CountKey(dict.secondary, k) = 1

(***************************************************************************)
(* C4: in any reachable state, insert(k, v) followed at once by            *)
(* insert(k, v2) returns Some(v) from the second call, and size() is the   *)
(* same after the second call as after the first.                          *)
(***************************************************************************)
C4_InsertTwice ==
  (panic = "" /\ bucket_count(dict.primary) # 0) =>
    \A k \in CallKeys : \A v, v2 \in Values :
      LET r1 == DictInsert(dict, k, v)
          r2 == DictInsert(r1.d, k, v2)
      IN (r1.panic = "" /\ bucket_count(r1.d.primary) # 0) =>
           /\ r2.old = Some(v)
           /\ size(r2.d) = size(r1.d)

(***************************************************************************)
(* C5 (as the spec states it): inserting the 18 keys "0".."17" one after   *)
(* another into Dict::default() starts a migration exactly once.           *)
(***************************************************************************)
C5_OneMigration ==
  (panic = "" /\ edits = 0 /\ fresh = TestKeys) => triggers = 1

(***************************************************************************)
(* C5 (amended): inserting the keys "0".."17" one after another (gets and  *)
(* size calls may come in between) starts a migration exactly twice: the   *)
(* 9th insert starts the first and the 17th the second.                    *)
(***************************************************************************)
C5_TwoMigrations ==
  (panic = "" /\ edits = 0) =>
    triggers = (IF fresh <= 8 THEN 0 ELSE IF fresh <= 16 THEN 1 ELSE 2)

C5_Witness ==
  panic = "" /\ edits = 0 /\ fresh = TestKeys /\ triggers = 2
  /\ ~Migrating(dict)

(***************************************************************************)
(* C6: a migration that starts with n entries counted in the secondary     *)
(* table is over after at most ceil(n/2) migrating calls, the triggering   *)
(* insert included (it is still active after c calls only if c <           *)
(* ceil(n/2)); the secondary table is allocated and the migration active   *)
(* as long as the secondary holds an entry; and get finds every key of     *)
(* the dictionary, during the migration and after it.                      *)
(***************************************************************************)
C6_MigrationTerminates ==
  panic = "" =>
    /\ Migrating(dict) => 2 * migCalls < migN
    /\ (triggers > 0 /\ ~Migrating(dict)) => 2 * migCalls <= migN + 1
    /\ ChainTotal(dict.secondary) > 0 =>
         (Migrating(dict) /\ bucket_count(dict.secondary) > 0)
    /\ \A k \in Stored \cap LookupKeys : DictGet(dict, k).ret # None
    /\ LET m == migrate(dict) IN \A k \in Stored : Lookup(m, k) # None

\* a migration of 9 counted entries that took all of its 5 calls, a key
\* having entered during it
C6_Witness ==
  /\ panic = "" /\ triggers = 1 /\ ~Migrating(dict)
  /\ migN = 9 /\ migCalls = 5 /\ fresh = NumKeys
  /\ dict.secondary = EMPTY_TABLE

(***************************************************************************)
(* C7: after every call, migrate_pos = -1 exactly when the secondary table *)
(* is the empty, unallocated table; otherwise 0 <= migrate_pos <           *)
(* secondary.bucket_count().                                               *)
(***************************************************************************)
C7_CursorSentinel ==
  panic = "" =>
    /\ dict.migrate_pos = -1 <=>
         (bucket_count(dict.secondary) = 0 /\ dict.secondary.items = 0)
    /\ dict.migrate_pos # -1 =>
         (0 <= dict.migrate_pos
          /\ dict.migrate_pos < bucket_count(dict.secondary))

C7_Witness ==
  panic = "" /\ triggers = 1 /\ dict.migrate_pos > 0 /\ edits > 0

(***************************************************************************)
(* C8 (as the spec states it): each of insert, get, get_mut, remove and    *)
(* size first performs one migration step and then does its own work on    *)
(* the tables the step left.                                               *)
(***************************************************************************)
\* the work of insert itself: store in the primary table, start a migration
\* when the growth test says so
StoreAndTrigger(d, key, value) ==
  LET d1 == [d EXCEPT !.primary = HtInsert(d.primary,
                                           [key |-> key, value |-> value]).t]
  IN IF NeedsMigration(d1) THEN trigger_migration(d1) ELSE d1

\* a removal that worked on the tables d0: it took the entry it returns, and
\* nothing else, out of them
RemovedFrom(r, d0) ==
  /\ r.d.migrate_pos = d0.migrate_pos
  /\ r.d.primary.items = d0.primary.items
  /\ r.d.secondary.items = d0.secondary.items
  /\ r.ret = None => r.d = d0
  /\ r.ret # None =>
       ChainTotal(r.d.primary) + ChainTotal(r.d.secondary) + 1
         = ChainTotal(d0.primary) + ChainTotal(d0.secondary)

MigratesFirst ==
  LET m == migrate(dict) IN
  \A k \in LookupKeys :
    /\ DictGet(dict, k).d = m
    /\ DictGetMut(dict, k).d = m
    /\ RemovedFrom(DictRemove(dict, k), m)

C8_EveryCallMigratesFirst ==
  panic = "" =>
    /\ MigratesFirst
    /\ DictSize(dict).d = migrate(dict)
    /\ \A k \in LookupKeys : \A v \in Values :
         DictInsert(dict, k, v).d = StoreAndTrigger(migrate(dict), k, v)

(***************************************************************************)
(* C8 (amended): get, get_mut and remove perform one migration step first  *)
(* and then work on the tables the step left; insert stores the entry in   *)
(* the primary table and starts a migration if the growth test says so,    *)
(* and performs its migration step last; size performs no migration step   *)
(* and leaves the dictionary as it is.                                     *)
(***************************************************************************)
C8_MigrationStepPlacement ==
  panic = "" =>
    /\ MigratesFirst
    /\ DictSize(dict) = [d |-> dict, ret |-> size(dict)]
    /\ \A k \in LookupKeys : \A v \in Values :
         DictInsert(dict, k, v).d = migrate(StoreAndTrigger(dict, k, v))

\* a migration is active and the next step moves entries
C8_Witness ==
  /\ panic = "" /\ Migrating(dict) /\ migCalls >= 2
  /\ migrate(dict).secondary.items < dict.secondary.items

(***************************************************************************)
(* C9 (as the spec states it): insert starts a migration exactly when,     *)
(* after the entry has been stored, no migration is active and             *)
(* load_factor() of the primary table is greater than 2.                   *)
(***************************************************************************)
\* the primary table as insert(key, value) leaves it before the growth test
StoredPrimary(key, value) ==
  HtInsert(dict.primary, [key |-> key, value |-> value]).t

C9_TriggerOnLoadFactor ==
  (panic = "" /\ bucket_count(dict.primary) # 0) =>
    \A k \in LookupKeys : \A v \in Values :
      DictInsert(dict, k, v).triggered <=>
        (~Migrating(dict) /\ load_factor(StoredPrimary(k, v)) > 2)

(***************************************************************************)
(* C9 (amended): insert starts a migration exactly when, after the entry   *)
(* has been stored, no migration is active and the primary table counts    *)
(* more than 2 items per bucket (items > 2 * bucket_count; the integer     *)
(* load_factor() is still 2 then); starting it makes the old primary the   *)
(* secondary, installs an empty primary with twice as many buckets and     *)
(* sets the cursor to 0, and primary.bucket_count() = 2 *                  *)
(* secondary.bucket_count() for the whole migration.                       *)
(***************************************************************************)
C9_TriggerOnItemCount ==
  (panic = "" /\ bucket_count(dict.primary) # 0) =>
    /\ Migrating(dict) =>
         bucket_count(dict.primary) = 2 * bucket_count(dict.secondary)
    /\ \A k \in LookupKeys : \A v \in Values :
         LET r  == DictInsert(dict, k, v)
             st == StoredPrimary(k, v)
             t  == trigger_migration([dict EXCEPT !.primary = st])
         IN /\ r.triggered <=>
                 (~Migrating(dict) /\ st.items > 2 * bucket_count(st))
            /\ r.triggered =>
                 /\ r.n = st.items
                 /\ t.secondary = st
                 /\ t.migrate_pos = 0
                 /\ bucket_count(t.primary) = 2 * bucket_count(st)
                 /\ t.primary.items = 0 /\ ChainTotal(t.primary) = 0
                 /\ bucket_count(r.d.primary) = 2 * bucket_count(st)

\* the insert that started the migration found 9 items in 4 buckets, where
\* load_factor() is 2
C9_Witness ==
  /\ panic = "" /\ Migrating(dict) /\ migCalls = 1 /\ migN = 9
  /\ bucket_count(dict.secondary) = 4 /\ bucket_count(dict.primary) = 8

(***************************************************************************)
(* C10: the items counter of a HashTable equals the number of entries in   *)
(* its chains after any insert, get, get_mut and remove calls (a remove    *)
(* that returns an entry lowers items by one).                             *)
(***************************************************************************)
C10_ItemsCountEntries ==
  panic = "" =>
    /\ dict.primary.items = ChainTotal(dict.primary)
    /\ dict.secondary.items = ChainTotal(dict.secondary)

(***************************************************************************)
(* C11: in every reachable state, each entry with key K stored in the      *)
(* primary or in the secondary table lies in bucket hash(K) & mask of that *)
(* same table, mask being bucket_count - 1; also the entries that a        *)
(* migration step moved.                                                   *)
(***************************************************************************)
InOwnBucket(t) ==
  \A s \in Slots(t) :
    s[1] - 1 = BitAnd(hash(t.buckets[s[1]][s[2]].key), bucket_count(t) - 1)

C11_EntriesInHashedBucket ==
  InOwnBucket(dict.primary) /\ InOwnBucket(dict.secondary)

\* the key "0" entered a table of 4 buckets (bucket 2) and a migration step
\* moved it to bucket 6 of the table of 8
C11_Witness ==
  /\ panic = "" /\ edits = 0 /\ triggers = 1
  /\ bucket_count(dict.primary) = 8
  /\ \E j \in 1..Len(dict.primary.buckets[7]) :
       dict.primary.buckets[7][j].key = "0"

(***************************************************************************)
(* C12: every table of a reachable Dict has a bucket count that is 0 or a  *)
(* power of two, and mask + 1 = bucket_count() whenever the bucket count   *)
(* is not 0.                                                               *)
(***************************************************************************)
RECURSIVE IsPowerOfTwo(_)
IsPowerOfTwo(n) == n = 1 \/ (n > 1 /\ n % 2 = 0 /\ IsPowerOfTwo(n \div 2))

MaskedTable(t) ==
  /\ bucket_count(t) = 0 \/ IsPowerOfTwo(bucket_count(t))
  /\ bucket_count(t) # 0 => t.mask + 1 = bucket_count(t)

C12_PowerOfTwoBuckets ==
  MaskedTable(dict.primary) /\ MaskedTable(dict.secondary)

\* both tables are allocated: 4 buckets under mask 3, 8 under mask 7
C12_Witness ==
  /\ panic = "" /\ Migrating(dict)
  /\ dict.secondary.mask = 3 /\ dict.primary.mask = 7
  /\ ChainTotal(dict.primary) > 0 /\ ChainTotal(dict.secondary) > 0

(***************************************************************************)
(* The HashTable driven by arbitrary calls.                                *)
(***************************************************************************)
\* the bucket counts the tests build tables with (iter and rust_doc_example:
\* 0, dbg_long_chains: 2, default: 4, dbg: 12)
TableSizes == { 0, 2, DEFAULT_BUCKET_SIZE, 12 }

TableKeys == { "0", "1", "2" }

TableInit ==
  /\ table \in { new_with_buckets(n) : n \in TableSizes }
  /\ tcall = NoCall
  /\ tcalls = 0
  /\ DictIdle /\ CodecIdle /\ StoreInit /\ ConnInit
  /\ ServerInit /\ ListIdle /\ RehashIdle

TableInsert ==
  \E key \in TableKeys, value \in Values :
    LET r == HtInsert(table, [key |-> key, value |-> value]) IN
    /\ tcalls < MaxTableCalls
    /\ tcalls' = tcalls + 1
    /\ table' = r.t
    /\ tcall' = [op |-> "insert", key |-> key, ret |-> r.old, pre |-> table]
    /\ UNCHANGED notTable

TableGet ==
  \E key \in TableKeys :
    /\ tcalls < MaxTableCalls
    /\ tcalls' = tcalls + 1
    /\ table' = table
    /\ tcall' = [op |-> "get", key |-> key, ret |-> HtGet(table, key),
                 pre |-> table]
    /\ UNCHANGED notTable

TableRemove ==
  \E key \in TableKeys :
    LET r == HtRemove(table, key) IN
    /\ tcalls < MaxTableCalls
    /\ tcalls' = tcalls + 1
    /\ table' = r.t
    /\ tcall' = [op |-> "remove", key |-> key, ret |-> r.ret, pre |-> table]
    /\ UNCHANGED notTable

TableNext == TableInsert \/ TableGet \/ TableRemove

\* a HashTable of some bucket count, arbitrary calls on a few keys
TableSpec == TableInit /\ [][TableNext]_vars

(***************************************************************************)
(* C13 (as the spec states it): HashTable.insert on a table with zero      *)
(* buckets fails fast: the call aborts instead of returning normally, so   *)
(* no run goes on after it.                                                *)
(***************************************************************************)
InsertedIntoZeroBuckets ==
  tcall.op = "insert" /\ bucket_count(tcall.pre) = 0

C13_InsertFailsFast == ~InsertedIntoZeroBuckets

(***************************************************************************)
(* C13 (amended): HashTable.insert on a table with zero buckets returns    *)
(* None at once and leaves the table as it was: no bucket is allocated, no *)
(* entry is stored, items stays 0, and a get of the key returns None.      *)
(***************************************************************************)
C13_InsertReturnsNone ==
  InsertedIntoZeroBuckets =>
    /\ tcall.ret = None
    /\ table = tcall.pre
    /\ bucket_count(table) = 0 /\ table.items = 0
    /\ HtGet(table, tcall.key) = None

\* the third insert in a row into a table without buckets, as in test iter
C13_Witness ==
  InsertedIntoZeroBuckets /\ tcalls = MaxTableCalls /\ tcall.ret = None

(***************************************************************************)
(* The wire codec (src/protocol.rs, bin/client.rs).  A byte is a number    *)
(* in 0..255, a buffer a sequence of bytes; a String is the sequence of    *)
(* its UTF-8 bytes, as in Rust.  A u32 read from the wire is kept as its   *)
(* two 16-bit halves [hi, lo], so that all 2^32 values have a place.  A    *)
(* Result is [tag, val, want, got].                                        *)
(***************************************************************************)
Ok(v) == [tag |-> "Ok", val |-> v, want |-> 0, got |-> 0]

NotEnoughBytes(want, got) ==
  [tag |-> "NotEnoughBytes", val |-> <<>>, want |-> want, got |-> got]

ProtocolError == [tag |-> "ProtocolError", val |-> <<>>, want |-> 0, got |-> 0]

\* src[start..end]
Slice(src, start, end) == SubSeq(src, start + 1, end)

\* u32::to_be_bytes of a length or count (all of them below 2^31 here)
to_be_bytes(n) ==
  << n \div 16777216, (n \div 65536) % 256, (n \div 256) % 256, n % 256 >>

\* i32::to_be_bytes: two's complement
i32_to_be_bytes(n) ==
  IF n >= 0 THEN to_be_bytes(n)
  ELSE LET u == (n + 2147483647) + 1
       IN << 128 + u \div 16777216, (u \div 65536) % 256,
             (u \div 256) % 256, u % 256 >>

\* to_u32 with a slip: the four bytes are read in little-endian order
to_u32_le(n) == [hi |-> n[4] * 256 + n[3], lo |-> n[2] * 256 + n[1]]

\* u32::from_be_bytes
to_u32(n) == [hi |-> n[1] * 256 + n[2], lo |-> n[3] * 256 + n[4]]

\* the comparison with a slip: a count or length of MAX_ARGS is refused too
ReachesMaxArgs(x) ==
  \/ x.hi > MAX_ARGS \div 65536
  \/ x.hi = MAX_ARGS \div 65536 /\ x.lo >= MAX_ARGS % 65536

\* `x as usize > MAX_ARGS` for a u32 x
ExceedsMaxArgs(x) ==
  \/ x.hi > MAX_ARGS \div 65536
  \/ x.hi = MAX_ARGS \div 65536 /\ x.lo > MAX_ARGS % 65536

\* `x as usize` for a u32 x that is not above MAX_ARGS
AsUsize(x) == x.hi * 65536 + x.lo

get_u32(src, start) ==
  IF Len(src) < start + 4 THEN NotEnoughBytes(4, Len(src))
  ELSE Ok(to_u32(Slice(src, start, start + 4)))

\* a UTF-8 continuation byte
IsCont(b) == b >= 128 /\ b <= 191

\* std::str::from_utf8 accepts exactly the well-formed UTF-8 byte sequences
RECURSIVE Utf8Valid(_)
Utf8Valid(s) ==
  IF s = <<>> THEN TRUE
  ELSE LET b == s[1]
           n == Len(s)
       IN IF b < 128 THEN Utf8Valid(Tail(s))
          ELSE IF b >= 194 /\ b <= 223
          THEN n >= 2 /\ IsCont(s[2]) /\ Utf8Valid(SubSeq(s, 3, n))
          ELSE IF b >= 224 /\ b <= 239
          THEN /\ n >= 3
               /\ IF b = 224 THEN s[2] >= 160 /\ s[2] <= 191
                  ELSE IF b = 237 THEN s[2] >= 128 /\ s[2] <= 159
                  ELSE IsCont(s[2])
               /\ IsCont(s[3])
               /\ Utf8Valid(SubSeq(s, 4, n))
          ELSE IF b >= 240 /\ b <= 244
          THEN /\ n >= 4
               /\ IF b = 240 THEN s[2] >= 144 /\ s[2] <= 191
                  ELSE IF b = 244 THEN s[2] >= 128 /\ s[2] <= 143
                  ELSE IsCont(s[2])
               /\ IsCont(s[3]) /\ IsCont(s[4])
               /\ Utf8Valid(SubSeq(s, 5, n))
          ELSE FALSE

get_str(src, start, end) ==
  IF Len(src) < start THEN NotEnoughBytes(start, Len(src))
  ELSE IF Len(src) < end THEN NotEnoughBytes(end, Len(src))
  ELSE IF Utf8Valid(Slice(src, start, end)) THEN Ok(Slice(src, start, end))
  ELSE ProtocolError

\* the for loop of parse_request, `left` rounds to go
RECURSIVE ParseArgs(_, _, _, _)
ParseArgs(src, cursor, left, dst) ==
  IF left = 0 THEN Ok(<<dst, cursor>>)
  ELSE LET len == get_u32(src, cursor) IN
       IF len.tag # "Ok" THEN len
       ELSE IF ExceedsMaxArgs(len.val) THEN ProtocolError
       ELSE LET s == get_str(src, cursor + 4, cursor + 4 + AsUsize(len.val))
            IN IF s.tag # "Ok" THEN s
               ELSE ParseArgs(src, cursor + 4 + AsUsize(len.val), left - 1,
                              Append(dst, s.val))

\* parse_request with a slip: the count of bytes consumed is the length of
\* the buffer
parse_request_takes_all(src) ==
  LET num_str == get_u32(src, 0) IN
  IF num_str.tag # "Ok" THEN num_str
  ELSE IF ExceedsMaxArgs(num_str.val) THEN ProtocolError
  ELSE LET r == ParseArgs(src, 4, AsUsize(num_str.val), <<>>)
       IN IF r.tag = "Ok" THEN Ok(<<r.val[1], Len(src)>>) ELSE r

\* parse_request: Ok(<<arguments, bytes consumed>>) or an error
parse_request(src) ==
  LET num_str == get_u32(src, 0) IN
  IF num_str.tag # "Ok" THEN num_str
  ELSE IF ExceedsMaxArgs(num_str.val) THEN ProtocolError
  ELSE ParseArgs(src, 4, AsUsize(num_str.val), <<>>)

\* the for loop of write_message
RECURSIVE EncodeArgs(_, _)
EncodeArgs(cs, buf) ==
  IF cs = <<>> THEN buf
  ELSE EncodeArgs(Tail(cs), buf \o to_be_bytes(Len(Head(cs))) \o Head(cs))

\* the bytes write_message of the client sends for the arguments cs (the
\* lists explored are far shorter than MAX_ARGS, the guard of its panic)
write_message(cs) == EncodeArgs(cs, to_be_bytes(Len(cs)))

(***************************************************************************)
(* The codec applied to one request: the client encodes it, the server     *)
(* parses the bytes.                                                       *)
(***************************************************************************)
\* the strings "", "a", "get" and the two-byte "e with acute accent"
CodecStrings == { <<>>, <<97>>, <<103, 101, 116>>, <<195, 169>> }

RECURSIVE ArgLists(_)
ArgLists(n) ==
  IF n = 0 THEN { <<>> }
  ELSE LET shorter == ArgLists(n - 1)
       IN shorter \cup { Append(l, s) : l \in { x \in shorter : Len(x) = n - 1 },
                                         s \in CodecStrings }

CodecInit ==
  /\ cmds \in ArgLists(MaxArgs)
  /\ frame = <<>>
  /\ parsed = NotParsed
  /\ items = <<>> /\ wire = <<>> /\ onWire = NotParsed
  /\ reply = NoReply
  /\ stream = NoStream /\ drained = <<>>
  /\ DictIdle /\ TableIdle /\ StoreInit /\ ConnInit
  /\ ServerInit /\ ListIdle /\ RehashIdle

Encode ==
  /\ frame = <<>>
  /\ onWire = NotParsed
  /\ reply = NoReply
  /\ stream = NoStream
  /\ frame' = write_message(cmds)
  /\ UNCHANGED <<cmds, parsed, items, wire, onWire, reply, stream, drained>>
  /\ UNCHANGED notCodec

Parse ==
  /\ frame # <<>>
  /\ parsed = NotParsed
  /\ parsed' = parse_request(frame)
  /\ UNCHANGED <<cmds, frame, items, wire, onWire, reply, stream, drained>>
  /\ UNCHANGED notCodec

\* the fields of the arguments cs, as write_message sends them
RECURSIVE ArgFields(_)
ArgFields(cs) ==
  IF cs = <<>> THEN <<>>
  ELSE << to_be_bytes(Len(Head(cs))), Head(cs) >> \o ArgFields(Tail(cs))

\* the fields of the frame of cs: items[1] is the count, items[2j] the
\* length of argument j and items[2j + 1] its bytes
Fields(cs) == << to_be_bytes(Len(cs)) >> \o ArgFields(cs)

\* the bytes of the fields fs on the wire
RECURSIVE Flatten(_)
Flatten(fs) == IF fs = <<>> THEN <<>> ELSE Head(fs) \o Flatten(Tail(fs))

\* counts and lengths at the limit: MAX_ARGS itself (0x02000000), one above
\* it, and the largest u32
BigFields == { <<2, 0, 0, 0>>, <<2, 0, 0, 1>>, <<255, 255, 255, 255>> }

\* byte strings that are not UTF-8: a byte no encoding holds, an encoded
\* surrogate, a lead byte without its continuation
BadStrings == { <<255>>, <<237, 160, 128>>, <<195>> }

\* what a peer may send in place of the frame of cs: the frame; the frame
\* with its count replaced by a big one; the frame up to a length replaced
\* by a big one; the frame with one argument replaced by bytes that are not
\* UTF-8
Wires(cs) ==
  LET f == Fields(cs) IN
    { f }
      \cup { [f EXCEPT ![1] = v] : v \in BigFields }
      \cup { Append(SubSeq(f, 1, 2 * j - 1), v) :
               j \in 1..Len(cs), v \in BigFields }
      \cup { [f EXCEPT ![2 * j] = to_be_bytes(Len(s)), ![2 * j + 1] = s] :
               j \in 1..Len(cs), s \in BadStrings }

\* a peer sends the fields w, the first k bytes of them arrive, and
\* parse_request is given these bytes
Receive ==
  /\ frame = <<>>
  /\ onWire = NotParsed
  /\ reply = NoReply
  /\ stream = NoStream
  /\ \E w \in Wires(cmds) :
       \E b \in { Flatten(w) } :
         \E k \in 0..Len(b) :
           /\ items' = w
           /\ wire' = SubSeq(b, 1, k)
           /\ onWire' = parse_request(SubSeq(b, 1, k))
  /\ UNCHANGED <<cmds, frame, parsed, reply, stream, drained>>
  /\ UNCHANGED notCodec

\* serialize with a slip: the length field leaves out its own 4 bytes
serialize_without_len(status_code, data, buf) ==
  LET len == IF data = <<>> THEN 4 ELSE 4 + Len(data)
  IN buf \o to_be_bytes(len) \o i32_to_be_bytes(status_code) \o data

\* request::serialize: the buffer with the response frame appended
serialize(status_code, data, buf) ==
  LET len == IF data = <<>> THEN 8 ELSE 8 + Len(data)
  IN buf \o to_be_bytes(len) \o i32_to_be_bytes(status_code) \o data

\* the buffers serialize is given: an empty one, and one that holds an
\* earlier response
ReplyBuffers == { <<>>, <<0, 0, 0, 9, 0, 0, 0, 0, 97>> }

\* serialize is called with a status, a payload out of the arguments of the
\* request (or none) and a buffer
Serialize ==
  /\ frame = <<>>
  /\ onWire = NotParsed
  /\ reply = NoReply
  /\ stream = NoStream
  /\ \E status_code \in { RES_OK, RES_NX, RES_ERR },
         data \in { cmds[i] : i \in 1..Len(cmds) } \cup { <<>> },
         buf \in ReplyBuffers :
       reply' = [status |-> status_code, data |-> data, at |-> Len(buf),
                 buf |-> serialize(status_code, data, buf)]
  /\ UNCHANGED <<cmds, frame, parsed, items, wire, onWire, stream, drained>>
  /\ UNCHANGED notCodec

\* the requests that follow the first one in a buffer
FollowUps == { <<>>, << <<97>> >>, << <<103, 101, 116>>, <<97>> >> }

\* the sequences of at most n of them
RECURSIVE FollowUpLists(_)
FollowUpLists(n) ==
  IF n = 0 THEN { <<>> }
  ELSE LET shorter == FollowUpLists(n - 1)
       IN shorter \cup { Append(l, c) : l \in { x \in shorter : Len(x) = n - 1 },
                                         c \in FollowUps }

\* bytes that follow the last frame: none, the start of a frame, bytes no
\* frame starts with, and bytes that are a frame themselves
Trailers == { <<>>, <<0, 0, 0, 1>>, <<255, 255, 255, 255>>, <<0, 0, 0, 0>> }

\* the frames of the requests, one after the other
RECURSIVE Frames(_)
Frames(reqs) ==
  IF reqs = <<>> THEN <<>> ELSE write_message(Head(reqs)) \o Frames(Tail(reqs))

\* a client writes the request and up to MaxFrames - 1 more, then further
\* bytes, and all of it arrives in one buffer
Pipeline ==
  /\ frame = <<>>
  /\ onWire = NotParsed
  /\ reply = NoReply
  /\ stream = NoStream
  /\ \E l \in FollowUpLists(MaxFrames - 1), t \in Trailers :
       \E reqs \in { <<cmds>> \o l } :
         stream' = [reqs |-> reqs, more |-> t, buf |-> Frames(reqs) \o t]
  /\ UNCHANGED <<cmds, frame, parsed, items, wire, onWire, reply, drained>>
  /\ UNCHANGED notCodec

\* one pass of parse-then-drain, as try_one_request makes it: the buffer is
\* parsed and the bytes consumed are drained
ParseThenDrain ==
  /\ stream # NoStream
  /\ Len(drained) < Len(stream.reqs)
  /\ \E result \in { parse_request(stream.buf) } :
       /\ drained' = Append(drained, result)
       /\ stream' = IF result.tag = "Ok"
                    THEN [stream EXCEPT
                            !.buf = Slice(@, result.val[2], Len(@))]
                    ELSE stream
  /\ UNCHANGED <<cmds, frame, parsed, items, wire, onWire, reply>>
  /\ UNCHANGED notCodec

CodecNext ==
  Encode \/ Parse \/ Receive \/ Serialize \/ Pipeline \/ ParseThenDrain

CodecSpec == CodecInit /\ [][CodecNext]_vars

(***************************************************************************)
(* C20: for every argument list of valid UTF-8 strings within the size     *)
(* limits, parse_request applied to its request frame (u32 big-endian      *)
(* count, then per argument u32 big-endian length and bytes) returns Ok    *)
(* with the original argument list and a consumed-byte count equal to the  *)
(* length of the frame.                                                    *)
(***************************************************************************)
RECURSIVE FrameLen(_)
FrameLen(cs) == IF cs = <<>> THEN 4 ELSE 4 + Len(Head(cs)) + FrameLen(Tail(cs))

C20_EncodeParseRoundTrip ==
  /\ frame # <<>> =>
       /\ Len(frame) = FrameLen(cmds)
       /\ SubSeq(frame, 1, 4) = <<0, 0, 0, Len(cmds)>>
  /\ parsed # NotParsed => parsed = Ok(<<cmds, Len(frame)>>)

\* a request of MaxArgs arguments, an empty and a two-byte one among them,
\* came back from parse_request
C20_Witness ==
  /\ parsed.tag = "Ok" /\ Len(cmds) = MaxArgs
  /\ \E i, j \in 1..Len(cmds) : cmds[i] = <<>> /\ cmds[j] = <<195, 169>>

(***************************************************************************)
(* The commands (protocol.rs, mod request).                                *)
(***************************************************************************)
\* the strings "get", "set", "del"
GET == <<103, 101, 116>>
SET == <<115, 101, 116>>
DEL == <<100, 101, 108>>

\* HashMap::get: the Option of the value
MapGet(map, key) ==
  LET hit == { p \in map : p[1] = key }
  IN IF hit = {} THEN None ELSE Some((CHOOSE p \in hit : TRUE)[2])

\* HashMap::remove with a slip: the value is returned and the pair is kept
MapRemoveKeeps(map, key) == [map |-> map, ret |-> MapGet(map, key)]

\* HashMap::remove: [map |-> the map afterwards, ret |-> the returned Option]
MapRemove(map, key) ==
  [map |-> { p \in map : p[1] # key }, ret |-> MapGet(map, key)]

\* the upsert with a slip: a value that is present is left as it is
MapInsertIfAbsent(map, key, value) ==
  IF MapGet(map, key) # None THEN map ELSE map \cup { <<key, value>> }

\* map.entry(key).and_modify(|v| *v = value).or_insert(value)
MapUpsert(map, key, value) ==
  { p \in map : p[1] # key } \cup { <<key, value>> }

\* the guard of the get arm with a slip: the number of arguments is not tested
IsGetAnyArity(cmd) == Len(cmd) >= 2 /\ cmd[1] = GET

\* the guards of the match arms
IsGet(cmd) == Len(cmd) = 2 /\ cmd[1] = GET
IsDel(cmd) == Len(cmd) = 2 /\ cmd[1] = DEL
IsSet(cmd) == Len(cmd) = 3 /\ cmd[1] = SET

\* handle_and_encode_request on the locked map:
\* [map |-> the map afterwards, buf |-> the buffer afterwards]
handle_and_encode_request(map, cmd, buf) ==
  IF IsGet(cmd)
  THEN LET v == MapGet(map, cmd[2]) IN
       IF v # None THEN [map |-> map, buf |-> serialize(RES_OK, v[1], buf)]
       ELSE [map |-> map, buf |-> serialize(RES_NX, <<>>, buf)]
  ELSE IF IsDel(cmd)
  THEN LET r == MapRemove(map, cmd[2]) IN
       IF r.ret # None
       THEN [map |-> r.map, buf |-> serialize(RES_OK, r.ret[1], buf)]
       ELSE [map |-> r.map, buf |-> serialize(RES_NX, <<>>, buf)]
  ELSE IF IsSet(cmd)
  THEN [map |-> MapUpsert(map, cmd[2], cmd[3]),
        buf |-> serialize(RES_OK, cmd[3], buf)]
  ELSE [map |-> map, buf |-> serialize(RES_OK, <<>>, buf)]

(***************************************************************************)
(* Commands applied one after another, their responses collected in one    *)
(* buffer.                                                                 *)
(***************************************************************************)
\* the values the commands store: "", "a" and "b"
StoreValues == { <<>>, <<97>>, <<98>> }

\* requests that are none of get <key>, del <key> and set <key> <value>: no
\* argument, too few, too many, an unknown verb, "GET" in capitals
OtherCommands ==
  { <<>>, <<GET>>, <<SET, <<97>>>>, <<GET, <<97>>, <<98>>>>,
    <<DEL, <<97>>, <<98>>>>, <<<<120>>, <<97>>>>, <<<<71, 69, 84>>, <<97>>>> }

Handle(kind, cmd) ==
  LET r == handle_and_encode_request(MAP, cmd, out) IN
  /\ ncmds < MaxCmds
  /\ ncmds' = ncmds + 1
  /\ MAP' = r.map
  /\ out' = r.buf
  /\ lastCmd' = [kind |-> kind, cmd |-> cmd, pre |-> MAP, at |-> Len(out)]
  /\ UNCHANGED notStore

CmdSet ==
  \E k \in StoreKeys, v \in StoreValues :
    /\ Handle("set", <<SET, k, v>>)
    /\ live' = [live EXCEPT ![k] = Some(v)]
    /\ gone' = gone \ {k}

CmdGet ==
  \E k \in StoreKeys :
    /\ Handle("get", <<GET, k>>)
    /\ UNCHANGED <<live, gone>>

CmdDel ==
  \E k \in StoreKeys :
    /\ Handle("del", <<DEL, k>>)
    /\ live' = [live EXCEPT ![k] = None]
    /\ gone' = IF live[k] # None THEN gone \cup {k} ELSE gone

CmdOther ==
  \E cmd \in OtherCommands :
    /\ Handle("other", cmd)
    /\ UNCHANGED <<live, gone>>

StoreNext == CmdSet \/ CmdGet \/ CmdDel \/ CmdOther

\* the process has started and no connection is open
CommandsInit ==
  /\ StoreInit
  /\ DictIdle /\ TableIdle /\ CodecIdle /\ ConnInit /\ ServerInit
  /\ ListIdle /\ RehashIdle

StoreSpec == CommandsInit /\ [][StoreNext]_vars

(***************************************************************************)
(* Reading a response frame.                                               *)
(***************************************************************************)
\* the response of the latest command
LastResponse == SubSeq(out, lastCmd.at + 1, Len(out))

\* the response to `get k` in the present state
GetResponse(k) == handle_and_encode_request(MAP, <<GET, k>>, <<>>).buf

\* frame f is a response with the 4 status bytes and the payload
Responds(f, status, payload) ==
  /\ Len(f) = 8 + Len(payload)
  /\ SubSeq(f, 1, 4) = <<0, 0, 0, Len(f)>>
  /\ SubSeq(f, 5, 8) = status
  /\ SubSeq(f, 9, Len(f)) = payload

StatusOk == <<0, 0, 0, 0>>
StatusNotFound == <<0, 0, 0, 1>>

(***************************************************************************)
(* C17: for any sequence of commands, `set k v` stores v under k           *)
(* (overwriting any previous value) and responds OK with payload v; `get   *)
(* k` responds OK with the value of the most recent set of k that no del   *)
(* of k followed, else NOT_FOUND with an empty payload; `set a b` then     *)
(* `get a` yields OK,b then OK,b.                                          *)
(***************************************************************************)
C17_SetThenGet ==
  /\ \A k \in StoreKeys :
       IF live[k] = None
       THEN Responds(GetResponse(k), StatusNotFound, <<>>)
       ELSE Responds(GetResponse(k), StatusOk, live[k][1])
  /\ lastCmd.kind = "set" =>
       /\ Responds(LastResponse, StatusOk, lastCmd.cmd[3])
       /\ { p \in MAP : p[1] = lastCmd.cmd[2] }
            = { <<lastCmd.cmd[2], lastCmd.cmd[3]>> }
       /\ { p \in MAP : p[1] # lastCmd.cmd[2] }
            = { p \in lastCmd.pre : p[1] # lastCmd.cmd[2] }
  /\ lastCmd.kind = "get" =>
       /\ MAP = lastCmd.pre
       /\ LastResponse = GetResponse(lastCmd.cmd[2])
  /\ (ncmds = 2 /\ lastCmd.cmd = <<GET, <<97>>>>
        /\ lastCmd.pre = { <<<<97>>, <<98>>>> }) =>
       out = <<0, 0, 0, 9, 0, 0, 0, 0, 98, 0, 0, 0, 9, 0, 0, 0, 0, 98>>

\* `set a a`, `set a b`, `get a`: the value was overwritten and read
C17_Witness ==
  /\ ncmds = 3 /\ lastCmd.cmd = <<GET, <<97>>>>
  /\ MAP = { <<<<97>>, <<98>>>> }
  /\ Len(out) = 27
  /\ SubSeq(out, 1, 9) = <<0, 0, 0, 9, 0, 0, 0, 0, 97>>
  /\ Responds(LastResponse, StatusOk, <<98>>)

(***************************************************************************)
(* C18: `del k` on a present key responds OK with the removed value and    *)
(* makes every following `get k` respond NOT_FOUND until the next `set     *)
(* k`; `del k` on an absent key responds NOT_FOUND with an empty payload   *)
(* and leaves the store unchanged.                                         *)
(***************************************************************************)
C18_Del ==
  /\ lastCmd.kind = "del" =>
       LET k   == lastCmd.cmd[2]
           hit == { p \in lastCmd.pre : p[1] = k }
       IN IF hit # {}
          THEN /\ \E p \in hit : Responds(LastResponse, StatusOk, p[2])
               /\ MAP = lastCmd.pre \ hit
               /\ k \in gone
          ELSE /\ Responds(LastResponse, StatusNotFound, <<>>)
               /\ MAP = lastCmd.pre
  /\ \A k \in gone : Responds(GetResponse(k), StatusNotFound, <<>>)

\* `set a b`, `del a`, `get a`: the del returned "b", the get found nothing
C18_Witness ==
  /\ ncmds = 3 /\ lastCmd.cmd = <<GET, <<97>>>> /\ <<97>> \in gone
  /\ SubSeq(out, 10, 18) = <<0, 0, 0, 9, 0, 0, 0, 0, 98>>
  /\ Responds(LastResponse, StatusNotFound, <<>>)

(***************************************************************************)
(* C19: any request that is not exactly [get, key], [del, key] or [set,    *)
(* key, value] (unknown verb, wrong number of arguments, or no argument)   *)
(* is answered with status OK and an empty payload and leaves the store    *)
(* unchanged.                                                              *)
(***************************************************************************)
\* the three shapes the claim names
Recognised(cmd) ==
  \/ Len(cmd) = 2 /\ cmd[1] \in { GET, DEL }
  \/ Len(cmd) = 3 /\ cmd[1] = SET

C19_OtherRequests ==
  (lastCmd.kind # "none" /\ ~Recognised(lastCmd.cmd)) =>
    /\ Responds(LastResponse, StatusOk, <<>>)
    /\ MAP = lastCmd.pre

\* `get a b` sent while "a" is stored
C19_Witness ==
  /\ lastCmd.cmd = <<GET, <<97>>, <<98>>>>
  /\ \E p \in MAP : p[1] = <<97>>
  /\ Len(LastResponse) = 8

(***************************************************************************)
(* Connection (main/src/connection.rs).  A socket read or write ends in    *)
(* one of the results the operating system can give; the result is an      *)
(* input of the operation.                                                 *)
(***************************************************************************)
\* want_read with a slip: true of every Connection that does not want to
\* write
want_read_or_close(c) == c.state # "WantWrite"

\* Connection::want_read, want_write, want_close
want_read(c) == c.state = "WantRead"
want_write(c) == c.state = "WantWrite"
want_close(c) == c.state = "WantClose"

\* close with a slip: the state is left as it is
close_keeps_state(c) == c

\* Connection::close
close(c) == [c EXCEPT !.state = "WantClose"]

\* try_one_request with a slip: the response is put in front of the responses
\* still waiting in the outbound buffer
try_one_request_prepends(c, map) ==
  IF c.incoming = <<>>
  THEN [c |-> c, map |-> map, state |-> "WantRead", parse |-> "empty"]
  ELSE LET result == parse_request(c.incoming) IN
       IF result.tag = "ProtocolError"
       THEN [c |-> c, map |-> map, state |-> "WantClose", parse |-> result.tag]
       ELSE IF result.tag = "NotEnoughBytes"
       THEN [c |-> c, map |-> map, state |-> "WantRead", parse |-> result.tag]
       ELSE LET h == handle_and_encode_request(map, result.val[1], <<>>)
            IN [c     |-> [c EXCEPT !.incoming = Slice(@, result.val[2], Len(@)),
                                    !.outgoing = h.buf \o @],
                map   |-> h.map,
                state |-> "WantWrite",
                parse |-> "Ok"]


\* try_one_request with a slip: every parse error is taken as "read more"
try_one_request_waits(c, map) ==
  IF c.incoming = <<>>
  THEN [c |-> c, map |-> map, state |-> "WantRead", parse |-> "empty"]
  ELSE LET result == parse_request(c.incoming) IN
       IF result.tag # "Ok"
       THEN [c |-> c, map |-> map, state |-> "WantRead", parse |-> result.tag]
       ELSE LET h == handle_and_encode_request(map, result.val[1], c.outgoing)
            IN [c     |-> [c EXCEPT !.incoming = Slice(@, result.val[2], Len(@)),
                                    !.outgoing = h.buf],
                map   |-> h.map,
                state |-> "WantWrite",
                parse |-> "Ok"]

\* try_one_request: [c, map |-> the connection and the MAP afterwards,
\* state |-> the returned state, parse |-> what parse_request returned]
try_one_request(c, map) ==
  IF c.incoming = <<>>
  THEN [c |-> c, map |-> map, state |-> "WantRead", parse |-> "empty"]
  ELSE LET result == parse_request(c.incoming) IN
       IF result.tag = "ProtocolError"
       THEN [c |-> c, map |-> map, state |-> "WantClose", parse |-> result.tag]
       ELSE IF result.tag = "NotEnoughBytes"
       THEN [c |-> c, map |-> map, state |-> "WantRead", parse |-> result.tag]
       ELSE LET h == handle_and_encode_request(map, result.val[1], c.outgoing)
            IN [c     |-> [c EXCEPT !.incoming = Slice(@, result.val[2], Len(@)),
                                    !.outgoing = h.buf],
                map   |-> h.map,
                state |-> "WantWrite",
                parse |-> "Ok"]

\* the second loop of on_read with a slip: one request is handled per call
ServeLoopOnce(c, map, served) ==
  LET r == try_one_request(c, map) IN
  [c |-> r.c, map |-> r.map,
   last_state |-> IF r.state = "WantWrite" THEN "WantRead" ELSE r.state,
   parse |-> r.parse,
   served |-> IF r.state = "WantWrite" THEN served + 1 ELSE served]


\* the second loop of on_read: requests are handled while try_one_request
\* returns WantWrite
RECURSIVE ServeLoop(_, _, _)
ServeLoop(c, map, served) ==
  LET r == try_one_request(c, map) IN
  IF r.state # "WantWrite"
  THEN [c |-> r.c, map |-> r.map, last_state |-> r.state, parse |-> r.parse,
        served |-> served]
  ELSE ServeLoop(r.c, r.map, served + 1)

\* the results of stream.write in on_write: "ok" with n bytes accepted,
\* "block", "interrupted", "err"
WriteOk(n) == [kind |-> "ok", n |-> n]
WriteFails(kind) == [kind |-> kind, n |-> 0]

\* on_write with a slip: after a write the whole buffer is taken as sent
on_write_clears(c, w) ==
  IF w.kind = "ok" /\ w.n = 0
  THEN [c |-> close(c), wrote |-> <<>>, ret |-> "Ok"]
  ELSE IF w.kind = "ok"
  THEN [c     |-> [c EXCEPT !.outgoing = <<>>, !.state = "WantRead"],
        wrote |-> SubSeq(c.outgoing, 1, w.n),
        ret   |-> "Ok"]
  ELSE IF w.kind = "block"
  THEN [c |-> c, wrote |-> <<>>, ret |-> "Ok"]
  ELSE [c |-> close(c), wrote |-> <<>>, ret |-> "Err"]

\* on_write with a slip: after a write the state is WantWrite, whatever is
\* left in the buffer
on_write_stays_writing(c, w) ==
  IF w.kind = "ok" /\ w.n = 0
  THEN [c |-> close(c), wrote |-> <<>>, ret |-> "Ok"]
  ELSE IF w.kind = "ok"
  THEN [c     |-> [c EXCEPT !.outgoing = Slice(@, w.n, Len(@)),
                            !.state = "WantWrite"],
        wrote |-> SubSeq(c.outgoing, 1, w.n),
        ret   |-> "Ok"]
  ELSE IF w.kind = "block"
  THEN [c |-> c, wrote |-> <<>>, ret |-> "Ok"]
  ELSE [c |-> close(c), wrote |-> <<>>, ret |-> "Err"]

\* on_write past its assertions, the write ending as w:
\* [c, wrote |-> the bytes the socket accepted, ret |-> "Ok" or "Err"]
on_write(c, w) ==
  IF w.kind = "ok" /\ w.n = 0
  THEN [c |-> close(c), wrote |-> <<>>, ret |-> "Ok"]
  ELSE IF w.kind = "ok"
  THEN LET rest == Slice(c.outgoing, w.n, Len(c.outgoing))
       IN [c     |-> [c EXCEPT !.outgoing = rest,
                               !.state = IF rest = <<>> THEN "WantRead"
                                         ELSE "WantWrite"],
           wrote |-> SubSeq(c.outgoing, 1, w.n),
           ret   |-> "Ok"]
  ELSE IF w.kind = "block"
  THEN [c |-> c, wrote |-> <<>>, ret |-> "Ok"]
  ELSE [c |-> close(c), wrote |-> <<>>, ret |-> "Err"]

\* the end of on_read, after the loop of try_one_request has ended as s with
\* buf read: the write, if one is made, ends as w and is reported in the
\* field `write`
write_or_keep_state(s, buf, w) ==
  IF s.c.outgoing # <<>>
  THEN LET o == on_write([s.c EXCEPT !.state = "WantWrite"], w)
       IN [c |-> o.c, map |-> s.map, wrote |-> o.wrote, ret |-> o.ret,
           parse |-> s.parse, served |-> s.served, buf |-> buf,
           write |-> [io |-> w,
                      pre |-> [s.c EXCEPT !.state = "WantWrite"],
                      ret |-> o.ret]]
  ELSE [c |-> [s.c EXCEPT !.state = s.last_state], map |-> s.map,
        wrote |-> <<>>, ret |-> "Ok",
        parse |-> s.parse, served |-> s.served, buf |-> buf,
        write |-> NoWrite]

\* on_read past its assertion: the reads bring `bytes` and end as r ("block",
\* "eof", "interrupted" or "err")
on_read(c, map, bytes, r, w) ==
  LET c1 == [c EXCEPT !.incoming = @ \o bytes] IN
  IF r = "eof"
  THEN [c |-> close(c1), map |-> map, wrote |-> <<>>, ret |-> "Ok",
        parse |-> "none", served |-> 0, buf |-> c1.incoming,
        write |-> NoWrite]
  ELSE IF r # "block"
  THEN [c |-> close(c1), map |-> map, wrote |-> <<>>, ret |-> "Err",
        parse |-> "none", served |-> 0, buf |-> c1.incoming,
        write |-> NoWrite]
  ELSE write_or_keep_state(ServeLoop(c1, map, 0), c1.incoming, w)

(***************************************************************************)
(* One Connection served by a reactor that calls on_read when the          *)
(* connection wants to read and on_write when it wants to write, and a     *)
(* peer that sends frames, whole or in two parts, and may close.           *)
(***************************************************************************)
\* a count above MAX_ARGS (0x02000001), and a frame of one argument whose
\* length is above it (0xFFFFFFFF)
OversizedCount == <<2, 0, 0, 1>>
OversizedLength == <<0, 0, 0, 1, 255, 255, 255, 255>>

\* a frame of one argument that is not UTF-8
NotUtf8 == <<0, 0, 0, 1, 0, 0, 0, 1, 255>>

\* what the peer sends: `set a b`, `get a`, a request without arguments,
\* and the three malformed frames
PeerFrames ==
  { write_message(<<SET, <<97>>, <<98>>>>), write_message(<<GET, <<97>>>>),
    write_message(<<>>), OversizedCount, OversizedLength, NotUtf8 }

\* where the peer may cut a frame: inside the count, inside the first length
CutPoints == { 2, 6 }

PeerSend ==
  \E f \in PeerFrames, k \in CutPoints \cup {0} :
    /\ cpanic = ""
    /\ ~eof /\ peer = <<>>
    /\ sends < MaxSends
    /\ sends' = sends + 1
    /\ IF k = 0 \/ k >= Len(f)
       THEN rx' = rx \o f /\ peer' = <<>>
       ELSE rx' = rx \o SubSeq(f, 1, k) /\ peer' = SubSeq(f, k + 1, Len(f))
    /\ last' = "peer"
    /\ UNCHANGED <<conn, eof, tx, lastRead, lastWrite, cpanic, MAP>>
    /\ UNCHANGED notConn

PeerRest ==
  /\ cpanic = ""
  /\ ~eof /\ peer # <<>>
  /\ rx' = rx \o peer
  /\ peer' = <<>>
  /\ last' = "peer"
  /\ UNCHANGED <<conn, eof, tx, sends, lastRead, lastWrite, cpanic, MAP>>
  /\ UNCHANGED notConn

PeerClose ==
  /\ cpanic = ""
  /\ ~eof
  /\ eof' = TRUE
  /\ peer' = <<>>
  /\ last' = "peer"
  /\ UNCHANGED <<conn, rx, tx, sends, lastRead, lastWrite, cpanic, MAP>>
  /\ UNCHANGED notConn

\* the results a write of the buffer b can have: nothing, one byte or all of
\* it accepted, or a failure
WriteResults(b) ==
  { WriteOk(n) : n \in { 0, 1, Len(b) } }
    \cup { WriteFails(k) : k \in { "block", "interrupted", "err" } }

\* the results the reads of on_read can end in: read returns 0 only when the
\* peer has closed, and it would block only when the peer has not
ReadResults ==
  IF eof THEN { "eof", "interrupted", "err" }
  ELSE { "block", "interrupted", "err" }

OnRead ==
  /\ cpanic = ""
  /\ want_read(conn)
  /\ \E r \in ReadResults :
       \E probe \in { on_read(conn, MAP, rx, r, WriteFails("block")) } :
         \E w \in (IF r = "block" /\ probe.c.outgoing # <<>>
                   THEN WriteResults(probe.c.outgoing)
                   ELSE { WriteFails("block") }) :
           \E o \in { on_read(conn, MAP, rx, r, w) } :
             /\ conn' = o.c
             /\ MAP' = o.map
             /\ tx' = tx \o o.wrote
             /\ lastRead' = [io |-> r, buf |-> o.buf, parse |-> o.parse,
                             served |-> o.served, wrote |-> Len(o.wrote),
                             ret |-> o.ret]
             /\ lastWrite' = o.write
  /\ rx' = <<>>
  /\ last' = "on_read"
  /\ UNCHANGED <<eof, peer, sends, cpanic>>
  /\ UNCHANGED notConn

OnWrite ==
  /\ cpanic = ""
  /\ want_write(conn)
  /\ IF conn.outgoing = <<>>
     THEN /\ cpanic' = "calling write on empty buffer"
          /\ UNCHANGED <<conn, tx, lastWrite>>
     ELSE \E w \in WriteResults(conn.outgoing) :
            \E o \in { on_write(conn, w) } :
              /\ conn' = o.c
              /\ tx' = tx \o o.wrote
              /\ lastWrite' = [io |-> w, pre |-> conn, ret |-> o.ret]
              /\ cpanic' = cpanic
  /\ last' = "on_write"
  /\ UNCHANGED <<rx, eof, peer, sends, lastRead, MAP>>
  /\ UNCHANGED notConn

\* ConnectionManager::handle_close: the reactor takes a Connection that
\* wants to close out of its table, and no call is made on it any more
HandleClose ==
  /\ cpanic = ""
  /\ want_close(conn)
  /\ last # "handle_close"
  /\ last' = "handle_close"
  /\ UNCHANGED <<conn, rx, eof, tx, peer, sends, lastRead, lastWrite, cpanic,
                 MAP>>
  /\ UNCHANGED notConn

ConnNext ==
  PeerSend \/ PeerRest \/ PeerClose \/ OnRead \/ OnWrite \/ HandleClose

\* a connection has been accepted, the MAP is empty
AcceptedInit ==
  /\ ConnInit /\ StoreInit
  /\ DictIdle /\ TableIdle /\ CodecIdle /\ ServerInit
  /\ ListIdle /\ RehashIdle

ConnSpec == AcceptedInit /\ [][ConnNext]_vars

(***************************************************************************)
(* C14: when the inbound buffer of a Connection contains only a frame      *)
(* whose declared argument count or argument length exceeds the maximum    *)
(* (32 << 20), on_read ends with the connection in WantClose, queues       *)
(* nothing on the outbound buffer and writes no byte to the socket; this   *)
(* happens as soon as the oversized 4-byte field has arrived, without      *)
(* waiting for the declared bytes.                                         *)
(***************************************************************************)
\* the 4 bytes at offset `at` of b have arrived and are above 32 << 20
FieldOversized(b, at) ==
  /\ Len(b) >= at + 4
  /\ \/ b[at + 1] > 2
     \/ b[at + 1] = 2 /\ (b[at + 2] > 0 \/ b[at + 3] > 0 \/ b[at + 4] > 0)

\* the buffer is the beginning of one frame whose count, or whose first
\* argument's length, is oversized
OversizedFrameOnly(b) ==
  \/ FieldOversized(b, 0)
  \/ /\ Len(b) >= 4 /\ ~FieldOversized(b, 0) /\ SubSeq(b, 1, 4) # <<0, 0, 0, 0>>
     /\ FieldOversized(b, 4)

C14_OversizedFrameCloses ==
  (last = "on_read" /\ OversizedFrameOnly(lastRead.buf)) =>
    /\ conn.state = "WantClose"
    /\ conn.outgoing = <<>>
    /\ lastRead.wrote = 0
    /\ lastRead.io = "block" =>
         (lastRead.parse = "ProtocolError" /\ lastRead.served = 0)

\* the bytes a frame declares have not arrived: the buffer ends with the
\* length field 0xFFFFFFFF, and parse_request reported the protocol error
C14_Witness ==
  /\ last = "on_read" /\ lastRead.io = "block"
  /\ lastRead.buf = OversizedLength
  /\ lastRead.parse = "ProtocolError"
  /\ conn.state = "WantClose" /\ tx = <<>>

(***************************************************************************)
(* C15: whenever request parsing inside Connection::on_read reports a      *)
(* protocol error, the connection is in state WantClose when on_read       *)
(* returns, no matter how many valid requests preceded the bad frame in    *)
(* the same inbound buffer and whether their responses were written.       *)
(***************************************************************************)
C15_ProtocolErrorCloses ==
  (last = "on_read" /\ lastRead.parse = "ProtocolError") =>
    conn.state = "WantClose"

(***************************************************************************)
(* The server of bin/server.rs: mod app and the loop of main.  It echoes   *)
(* frames of one length-prefixed string.                                   *)
(***************************************************************************)
\* TokenGen::next with a slip: a freed token is handed out and stays in the
\* free list
TokenGenNextKeepsFreed(g) ==
  IF g.freed # <<>>
  THEN [g |-> g, tok |-> Head(g.freed)]
  ELSE [g |-> [g EXCEPT !.next = @ + 1], tok |-> g.next + 1]

\* TokenGen::next: [g |-> the generator afterwards, tok |-> the token]
TokenGenNext(g) ==
  IF g.freed # <<>>
  THEN [g |-> [g EXCEPT !.freed = Tail(@)], tok |-> Head(g.freed)]
  ELSE [g |-> [g EXCEPT !.next = @ + 1], tok |-> g.next + 1]

\* TokenGen::free
TokenGenFree(g, tok) == [g EXCEPT !.freed = <<tok>> \o @]

\* app::Conn::new on a socket nothing has been sent on
ConnNew(tok) ==
  [tok |-> tok, state |-> "WantRead", incoming |-> <<>>, outgoing |-> <<>>,
   rx |-> <<>>, eof |-> FALSE]

\* `incoming.len() < len as usize + 4` for a u32 len: the sum is taken in 64
\* bits, and a len of 2^31 or more is above the length of any buffer here
ShorterThanFrame(n, len) ==
  len.hi >= 32768 \/ n < len.hi * 65536 + len.lo + 4

\* app::try_one_request: [c, err |-> "none" for Ok, else the LoopError]
app_try_one_request(c) ==
  IF Len(c.incoming) < 4
  THEN [c |-> [c EXCEPT !.state = "WantRead"], err |-> "IncompleteRequest"]
  ELSE LET len == to_u32(SubSeq(c.incoming, 1, 4)) IN
       IF ShorterThanFrame(Len(c.incoming), len)
       THEN [c |-> [c EXCEPT !.state = "WantRead"], err |-> "IncompleteRequest"]
       ELSE LET n == AsUsize(len) IN
            IF ~Utf8Valid(Slice(c.incoming, 4, 4 + n))
            THEN [c |-> [c EXCEPT !.state = "WantClose"],
                  err |-> "InvalidRequest"]
            ELSE [c   |-> [c EXCEPT
                             !.outgoing = @ \o to_be_bytes(n)
                                            \o Slice(c.incoming, 4, 4 + n),
                             !.incoming = Slice(@, 4 + n, Len(@)),
                             !.state = "WantWrite"],
                  err |-> "none"]

\* app::handle_read, the read ending as r: "data" (the bytes waiting on the
\* socket, fewer than the 1024 the buffer takes), "eof", "block",
\* "interrupted" or "err"
handle_read(c, r) ==
  IF r = "eof"
  THEN [c |-> [c EXCEPT !.state = "WantClose"], err |-> "CloseConnection"]
  ELSE IF r = "data"
  THEN app_try_one_request([c EXCEPT !.incoming = @ \o c.rx, !.rx = <<>>])
  ELSE IF r \in { "block", "interrupted" }
  THEN [c |-> c, err |-> "none"]
  ELSE [c |-> [c EXCEPT !.state = "WantClose"], err |-> "IoError"]

\* app::handle_write, the write ending as w: [c, err, panic]
handle_write(c, w) ==
  IF c.state # "WantWrite"
  THEN [c |-> c, err |-> "none",
        panic |-> "calling write even if conn doesnt want to write"]
  ELSE IF Len(c.outgoing) = 0
  THEN [c |-> c, err |-> "none", panic |-> "calling write on empty buffer"]
  ELSE IF w.kind = "ok" /\ w.n = 0
  THEN [c |-> [c EXCEPT !.state = "WantClose"], err |-> "CloseConnection",
        panic |-> ""]
  ELSE IF w.kind = "ok" /\ w.n # Len(c.outgoing)
  THEN [c |-> c, err |-> "none", panic |-> "could not write full buffer"]
  ELSE IF w.kind = "ok"
  THEN [c |-> [c EXCEPT !.outgoing = <<>>, !.state = "WantRead"],
        err |-> "none", panic |-> ""]
  ELSE IF w.kind \in { "block", "interrupted" }
  THEN [c |-> c, err |-> "none", panic |-> ""]
  ELSE [c |-> [c EXCEPT !.state = "WantClose"], err |-> "IoError",
        panic |-> ""]

\* app::handle_connection for the event ev = [readable, writable]:
\* [c, result |-> "Ok" or the LoopError returned, panic]
handle_connection(c, ev, r, w) ==
  LET rd == IF ev.readable /\ c.state = "WantRead" THEN handle_read(c, r)
            ELSE [c |-> c, err |-> "none"]
  IN IF rd.err \in { "IoError", "CloseConnection" }
     THEN [c |-> rd.c, result |-> rd.err, panic |-> ""]
     ELSE LET wr == IF ev.writable /\ rd.c.state = "WantWrite"
                    THEN handle_write(rd.c, w)
                    ELSE [c |-> rd.c, err |-> "none", panic |-> ""]
          IN [c |-> wr.c, result |-> "Ok", panic |-> wr.panic]

(***************************************************************************)
(* The process: accepts, clients that send and close, readiness events.    *)
(***************************************************************************)
\* the tokens a run can hand out
Tokens == 1..MaxAccepts

\* what a client sends: the string "a", half of a frame, and a frame whose
\* byte is not UTF-8
ClientFrames == { <<0, 0, 0, 1, 97>>, <<0, 0>>, <<0, 0, 0, 1, 255>> }

Events ==
  { [readable |-> TRUE, writable |-> FALSE],
    [readable |-> FALSE, writable |-> TRUE],
    [readable |-> TRUE, writable |-> TRUE] }

ConnOf(tok) == { c \in srvConns : c.tok = tok }

\* the SERVER arm of main: a connection is accepted and registered
Accept ==
  LET t == TokenGenNext(tokgen) IN
  /\ crashed = ""
  /\ accepts < MaxAccepts
  /\ accepts' = accepts + 1
  /\ tokgen' = t.g
  /\ srvConns' = (srvConns \ ConnOf(t.tok)) \cup { ConnNew(t.tok) }
  /\ UNCHANGED <<crashed, csends>>
  /\ UNCHANGED notServer

ClientSend ==
  \E c \in srvConns, f \in ClientFrames :
    /\ crashed = ""
    /\ ~c.eof
    /\ csends < MaxClientSends
    /\ csends' = csends + 1
    /\ srvConns' = (srvConns \ {c}) \cup { [c EXCEPT !.rx = @ \o f] }
    /\ UNCHANGED <<tokgen, crashed, accepts>>
    /\ UNCHANGED notServer

ClientClose ==
  \E c \in srvConns :
    /\ crashed = ""
    /\ ~c.eof
    /\ srvConns' = (srvConns \ {c}) \cup { [c EXCEPT !.eof = TRUE] }
    /\ UNCHANGED <<tokgen, crashed, accepts, csends>>
    /\ UNCHANGED notServer

\* the results a read on the socket of c can have
SocketReads(c) ==
  { "interrupted", "err" }
    \cup (IF c.rx # <<>> THEN { "data" }
          ELSE IF c.eof THEN { "eof" } ELSE { "block" })

\* the `token =>` arm of main for one event
ConnEvent ==
  \E tok \in Tokens, ev \in Events :
    /\ crashed = ""
    /\ IF ConnOf(tok) = {}
       THEN UNCHANGED <<srvConns, tokgen, crashed>>
       ELSE \E c \in ConnOf(tok) :
            \E r \in SocketReads(c) :
            \E probe \in { handle_connection(c, ev, r, WriteFails("block")) } :
            \E w \in (IF ev.writable /\ probe.c.state = "WantWrite"
                      THEN WriteResults(probe.c.outgoing)
                      ELSE { WriteFails("block") }) :
            \E h \in { handle_connection(c, ev, r, w) } :
              IF h.panic # ""
              THEN /\ crashed' = h.panic
                   /\ UNCHANGED <<srvConns, tokgen>>
              ELSE IF h.c.state # "WantClose"
              THEN /\ srvConns' = (srvConns \ {c}) \cup { h.c }
                   /\ UNCHANGED <<tokgen, crashed>>
              ELSE IF h.result # "Ok"
              THEN /\ srvConns' = srvConns \ {c}
                   /\ tokgen' = TokenGenFree(tokgen, tok)
                   /\ UNCHANGED crashed
              ELSE /\ crashed' = "handle_connection didnt return an error, but connection was still set to WantClose"
                   /\ srvConns' = (srvConns \ {c}) \cup { h.c }
                   /\ UNCHANGED tokgen
    /\ UNCHANGED <<accepts, csends>>
    /\ UNCHANGED notServer

ServerNext == Accept \/ ClientSend \/ ClientClose \/ ConnEvent

\* the server has started
StartedInit ==
  /\ ServerInit
  /\ DictIdle /\ TableIdle /\ CodecIdle /\ StoreInit /\ ConnInit
  /\ ListIdle /\ RehashIdle

ServerSpec == StartedInit /\ [][ServerNext]_vars

(***************************************************************************)
(* C16: no per-connection event (a payload that is not valid UTF-8, a      *)
(* zero-byte write, a write I/O error, a write that accepts only part of   *)
(* the outbound buffer) makes the server process panic or abort: the       *)
(* reactor only closes the affected connection and keeps serving the       *)
(* others.                                                                 *)
(***************************************************************************)
C16_NoEventPanics == crashed = ""

(***************************************************************************)
(* C21: for every strict prefix of a well-formed request frame,            *)
(* parse_request returns NotEnoughBytes (never Ok and never                *)
(* ProtocolError), and its want and got fields report the exact missing    *)
(* byte count: got is the buffer length, want > got, and want - got is     *)
(* the number of bytes still needed (to complete the field the prefix      *)
(* ends in).                                                               *)
(***************************************************************************)
\* the offset on the wire at which field i of the items ends
End(i) == Len(Flatten(SubSeq(items, 1, i)))

\* parse_request was given a strict prefix of the frame of cmds
ParsedStrictPrefix ==
  /\ onWire # NotParsed
  /\ items = Fields(cmds)
  /\ Len(wire) < Len(Flatten(items))

C21_PrefixNeedsExactBytes ==
  ParsedStrictPrefix =>
    /\ onWire.tag = "NotEnoughBytes"
    /\ onWire.got = Len(wire)
    /\ onWire.want > onWire.got
    /\ \E i \in 1..Len(items) :
         /\ End(i) > Len(wire)
         /\ i > 1 => End(i - 1) <= Len(wire)
         /\ onWire.want = End(i)

(***************************************************************************)
(* C22: parse_request returns ProtocolError exactly when, reading the      *)
(* frame from the start, it meets a declared argument count or a declared  *)
(* argument length greater than MAX_ARGS (32 << 20) or a fully received    *)
(* argument whose bytes are not valid UTF-8, before running out of bytes;  *)
(* a count or length equal to MAX_ARGS is accepted.                        *)
(***************************************************************************)
\* field i of the items breaks the protocol: a count or a length above
\* 32 << 20, or argument bytes that are not UTF-8
BreaksProtocol(i) ==
  IF i = 1 \/ i % 2 = 0 THEN FieldOversized(items[i], 0)
  ELSE items[i] \in BadStrings

C22_ProtocolErrorExactly ==
  onWire # NotParsed =>
    (onWire.tag = "ProtocolError"
       <=> \E i \in 1..Len(items) :
             /\ BreaksProtocol(i)
             /\ End(i) <= Len(wire)
             /\ \A j \in 1..(i - 1) : ~BreaksProtocol(j))

\* the second argument is not UTF-8, it has arrived whole after a first
\* argument that is sound, and the third has not arrived
C22_Witness ==
  /\ onWire.tag = "ProtocolError"
  /\ Len(items) = 7
  /\ items[3] = <<195, 169>>
  /\ items[5] = <<237, 160, 128>>
  /\ Len(wire) = End(5)

(***************************************************************************)
(* C23: every response frame produced by serialize consists of a u32       *)
(* big-endian total_len, an i32 big-endian status (0 = OK, 1 = NOT_FOUND,  *)
(* -1 = ERR) and then a payload; as the claim has it, the payload is       *)
(* exactly total_len - 4 bytes long; as serialize writes it, total_len     *)
(* counts the whole frame and the payload is exactly total_len - 8 bytes.  *)
(***************************************************************************)
\* the frame the latest call of serialize appended
ReplyFrame == SubSeq(reply.buf, reply.at + 1, Len(reply.buf))

\* i32::from_be_bytes
i32_from_be_bytes(b) ==
  LET u == to_u32(b) IN
  IF u.hi >= 32768 THEN (u.hi - 65536) * 65536 + u.lo
  ELSE u.hi * 65536 + u.lo

\* the frame r begins with a length and with the status of the call, the
\* data of the call follows the status and ends the frame
ReplyHeader(r) ==
  /\ Len(r) >= 8
  /\ i32_from_be_bytes(SubSeq(r, 5, 8)) = reply.status
  /\ reply.status \in { 0, 1, -1 }
  /\ SubSeq(r, 9, Len(r)) = reply.data
  /\ SubSeq(reply.buf, 1, reply.at) \in ReplyBuffers

\* the total_len of the frame r
TotalLen(r) == AsUsize(to_u32(SubSeq(r, 1, 4)))

C23_PayloadIsTotalLenMinus4 ==
  reply # NoReply =>
    /\ ReplyHeader(ReplyFrame)
    /\ Len(ReplyFrame) - 8 = TotalLen(ReplyFrame) - 4

C23_PayloadIsTotalLenMinus8 ==
  reply # NoReply =>
    /\ ReplyHeader(ReplyFrame)
    /\ Len(ReplyFrame) - 8 = TotalLen(ReplyFrame) - 8
    /\ TotalLen(ReplyFrame) = Len(ReplyFrame)

\* an ERR response with a two-byte payload, appended to a buffer that held
\* a response
C23_Witness ==
  /\ reply.status = RES_ERR
  /\ reply.data = <<195, 169>>
  /\ reply.at = 9
  /\ Len(reply.buf) = 19

(***************************************************************************)
(* C24: whenever Connection::on_read or Connection::on_write returns,      *)
(* state == WantWrite implies the outbound buffer is non-empty and state   *)
(* == WantRead implies the outbound buffer is empty; hence a reactor that  *)
(* calls on_read only in WantRead and on_write only in WantWrite never     *)
(* trips the state or empty-buffer assertions of on_read and on_write.     *)
(***************************************************************************)
C24_StateMatchesOutgoing ==
  /\ conn.state = "WantWrite" => conn.outgoing # <<>>
  /\ conn.state = "WantRead" => conn.outgoing = <<>>
  /\ cpanic = ""

\* on_read served a request, the socket took a part of the response, and
\* on_read returned in WantWrite with the rest
C24_Witness ==
  /\ last = "on_read"
  /\ lastRead.served > 0
  /\ lastRead.wrote = 1
  /\ conn.state = "WantWrite"
  /\ Len(conn.outgoing) = 7

(***************************************************************************)
(* C25: Connection::on_write, when the socket accepts n > 0 bytes, removes *)
(* exactly the first n bytes of the outbound buffer and ends in WantRead   *)
(* if the buffer became empty and in WantWrite otherwise; when the socket  *)
(* would block it leaves the state (WantWrite), the outbound buffer and    *)
(* the inbound buffer unchanged and returns Ok.                            *)
(***************************************************************************)
C25_WriteDrainsPrefix ==
  /\ (lastWrite.io.kind = "ok" /\ lastWrite.io.n > 0) =>
       /\ conn.outgoing = SubSeq(lastWrite.pre.outgoing, lastWrite.io.n + 1,
                                 Len(lastWrite.pre.outgoing))
       /\ Len(conn.outgoing) = Len(lastWrite.pre.outgoing) - lastWrite.io.n
       /\ Len(tx) >= lastWrite.io.n
       /\ SubSeq(tx, Len(tx) - lastWrite.io.n + 1, Len(tx))
            = SubSeq(lastWrite.pre.outgoing, 1, lastWrite.io.n)
       /\ conn.state = IF conn.outgoing = <<>> THEN "WantRead"
                       ELSE "WantWrite"
       /\ conn.incoming = lastWrite.pre.incoming
       /\ lastWrite.ret = "Ok"
  /\ lastWrite.io.kind = "block" =>
       /\ lastWrite.pre.state = "WantWrite"
       /\ conn = lastWrite.pre
       /\ lastWrite.ret = "Ok"

\* on_write, called by the reactor on a buffer of 7 bytes left by an earlier
\* write, has one more byte accepted
C25_Witness ==
  /\ last = "on_write"
  /\ lastWrite.io = WriteOk(1)
  /\ Len(lastWrite.pre.outgoing) = 7
  /\ Len(conn.outgoing) = 6
  /\ conn.state = "WantWrite"

(***************************************************************************)
(* C26: a would-block or an interrupted result from a socket read or       *)
(* write in Connection::on_read / on_write is recovered locally: the       *)
(* connection does not move to WantClose, no error is returned to the      *)
(* caller, and the operation is retried on a later readiness event.        *)
(***************************************************************************)
\* a result of a socket read or write that is transient
Transient(kind) == kind \in { "block", "interrupted" }

\* the latest step was on_write and its write ended in a transient result,
\* or it was on_read, its reads ended in one, and neither a write it made nor
\* the bytes it parsed gave it another reason to close
OnlyTransient ==
  \/ last = "on_write" /\ Transient(lastWrite.io.kind)
  \/ /\ last = "on_read" /\ Transient(lastRead.io)
     /\ lastRead.parse # "ProtocolError"
     /\ lastWrite.io.kind \in { "none", "block", "interrupted" }

C26_TransientRecovered ==
  OnlyTransient =>
    /\ conn.state # "WantClose"
    /\ last = "on_read" => lastRead.ret = "Ok"
    /\ last = "on_write" => (lastWrite.ret = "Ok" /\ conn = lastWrite.pre)

(***************************************************************************)
(* C27: when a socket read in Connection::on_read returns 0 bytes (peer    *)
(* closed), on_read sets the state to WantClose and returns Ok(()) without *)
(* surfacing an error; when a socket write in on_write accepts 0 bytes,    *)
(* on_write likewise sets WantClose.                                       *)
(***************************************************************************)
C27_ZeroBytesClose ==
  /\ (last = "on_read" /\ lastRead.io = "eof") =>
       /\ conn.state = "WantClose"
       /\ lastRead.ret = "Ok"
       /\ lastRead.served = 0 /\ lastRead.wrote = 0
  /\ lastWrite.io = WriteOk(0) =>
       /\ conn.state = "WantClose"
       /\ lastWrite.ret = "Ok"
       /\ conn.outgoing = lastWrite.pre.outgoing

\* the peer closed after half a frame: on_read appends the bytes, reads 0
\* and ends in WantClose
C27_Witness ==
  /\ last = "on_read" /\ lastRead.io = "eof"
  /\ Len(lastRead.buf) = 2
  /\ conn.state = "WantClose"
  /\ conn.incoming = lastRead.buf

\* on_write, called by the reactor, has 0 bytes accepted
C27_WitnessWrite ==
  /\ last = "on_write" /\ lastWrite.io = WriteOk(0)
  /\ conn.state = "WantClose"

(***************************************************************************)
(* C28: WantClose is terminal for a Connection: once its state is          *)
(* WantClose, no later step of on_read, on_write or the reactor changes    *)
(* the state to WantRead or WantWrite.                                     *)
(***************************************************************************)
C28_WantCloseTerminal ==
  [][conn.state = "WantClose" => conn'.state = "WantClose"]_vars

\* a zero-byte write closed the connection, the peer has sent a frame since
\* and the reactor has taken the connection out of its table
C28_Witness ==
  /\ conn.state = "WantClose"
  /\ lastWrite.io = WriteOk(0)
  /\ rx # <<>>
  /\ last = "handle_close"

(***************************************************************************)
(* C29: in every reachable reactor state, the tokens of the connections    *)
(* in the connection table are pairwise distinct and none equals the       *)
(* listener token 0, for any interleaving of accepts and closes (including *)
(* token reuse through the free list); the token the next accept gets is   *)
(* none of them, so that no connection of the table is replaced.           *)
(***************************************************************************)
\* the token of the listener
SERVER == 0

\* the tokens of the connection table, and those of the free list
TableTokens == { c.tok : c \in srvConns }
FreedTokens == { tokgen.freed[i] : i \in 1..Len(tokgen.freed) }

C29_TokensDistinct ==
  /\ \A c1, c2 \in srvConns : c1.tok = c2.tok => c1 = c2
  /\ SERVER \notin TableTokens
  /\ TokenGenNext(tokgen).tok \notin TableTokens \cup { SERVER }
  /\ FreedTokens \cap TableTokens = {}
  /\ Cardinality(FreedTokens) = Len(tokgen.freed)

\* three connections were accepted with two tokens: one token went through
\* the free list, and two connections are in the table
C29_Witness ==
  /\ accepts = 3
  /\ tokgen = [next |-> 2, freed |-> <<>>]
  /\ TableTokens = { 1, 2 }
  /\ Cardinality(srvConns) = 2

(***************************************************************************)
(* C30: in any Dict state reachable from Dict::default(), after remove(k)  *)
(* returns Some(entry), every later get(k) returns None until the next     *)
(* insert(k, _), also when k had been re-inserted during a migration while *)
(* an older entry for k was still in the secondary table.                  *)
(***************************************************************************)
C30_RemovedStaysGone ==
  panic = "" =>
    \A k \in CallKeys :
      LET r == DictRemove(dict, k)
          g == DictGet(r.d, k)
      IN r.ret # None =>
           /\ g.ret = None
           /\ DictGet(g.d, k).ret = None

(***************************************************************************)
(* C31: a single insert, get, get_mut or remove call moves at most         *)
(* MAX_REHASH_OPS = 2 entries from the secondary table to the primary      *)
(* table, and exactly min(2, entries left in the secondary) of them;       *)
(* stepping over empty secondary buckets consumes no budget.               *)
(***************************************************************************)
Smaller(a, b) == IF a < b THEN a ELSE b

\* the keys of the entries in the chains of t
ChainKeys(t) == { t.buckets[s[1]][s[2]].key : s \in Slots(t) }

\* d1 is d after a step that took exactly min(2, left) entries out of the
\* secondary chains, each of which has its key in the primary table
MovedWithinBudget(left, d, d1) ==
  /\ left - ChainTotal(d1.secondary) = Smaller(MAX_REHASH_OPS, left)
  /\ left - ChainTotal(d1.secondary) <= MAX_REHASH_OPS
  /\ ChainKeys(d.secondary) \subseteq
       ChainKeys(d1.secondary) \cup ChainKeys(d1.primary)

BehindCursorEmpty(d) ==
  \A b \in 1..Len(d.secondary.buckets) :
    b - 1 < d.migrate_pos => d.secondary.buckets[b] = <<>>

\* every chain of t1 holds only entries the same chain of t held, and no more
\* of them; a retired table (no buckets) has lost them all
OnlyLoses(t, t1) ==
  \/ t1.buckets = <<>>
  \/ /\ Len(t1.buckets) = Len(t.buckets)
     /\ \A b \in 1..Len(t.buckets) :
          /\ Len(t1.buckets[b]) <= Len(t.buckets[b])
          /\ { t1.buckets[b][j] : j \in 1..Len(t1.buckets[b]) }
               \subseteq { t.buckets[b][j] : j \in 1..Len(t.buckets[b]) }

C33_AssertionsNeverFire ==
  /\ panic = ""
  /\ bucket_count(dict.primary) # 0
  /\ \A k \in CallKeys : DictInsert(dict, k, "a").panic = ""

\* the second migration was started by an insert after the first one had been
\* retired, in a run that also removed a key (which leaves secondary.items
\* above the number of entries held)
C33_Witness ==
  /\ panic = "" /\ triggers = 2 /\ migCalls = 1
  /\ \E k \in Entered : expect[k] = None


(***************************************************************************)
(* C34: after every public Dict operation that returns with no migration   *)
(* active (migrate_pos == -1), primary.items <= 2 * primary.bucket_count():*)
(* the primary table is never left over the growth threshold without a     *)
(* migration having been started, also right after a migration was retired.*)
(***************************************************************************)
C34_ThresholdKept ==
  (panic = "" /\ dict.migrate_pos = -1) =>
    dict.primary.items <= MAX_ENTRIES_PER_BUCKET * bucket_count(dict.primary)

\* the first migration has been retired by the call that just returned: the
\* doubled primary table counts more items than the old table's threshold,
\* among them keys inserted while the migration ran
C34_Witness ==
  /\ panic = "" /\ triggers = 1 /\ dict.migrate_pos = -1
  /\ bucket_count(dict.primary) = 2 * DEFAULT_BUCKET_SIZE
  /\ dict.primary.items > MAX_ENTRIES_PER_BUCKET * DEFAULT_BUCKET_SIZE + 1


(***************************************************************************)
(* C35: when Connection::on_read returns without having met EOF, an I/O    *)
(* error or a protocol error, every complete request that was in the       *)
(* inbound buffer has been consumed and its response appended to the       *)
(* outbound buffer (or already written): the inbound buffer is empty or    *)
(* starts with an incomplete frame.                                        *)
(***************************************************************************)
\* some prefix of b is a whole request frame
StartsWithRequest(b) ==
  \E k \in 1..Len(b) : parse_request(SubSeq(b, 1, k)).tag = "Ok"

\* the end offsets of the request frames b begins with, one after the other
RECURSIVE FrameEnds(_, _)
FrameEnds(b, from) ==
  LET ends == { k \in (from + 1)..Len(b) :
                  parse_request(SubSeq(b, from + 1, k)).tag = "Ok" }
  IN IF ends = {} THEN <<>>
     ELSE LET k == CHOOSE e \in ends : \A f \in ends : e <= f
          IN <<k>> \o FrameEnds(b, k)

\* the latest step was a call of on_read that met no EOF, no I/O error and
\* no protocol error
ReadWentThrough ==
  /\ last = "on_read" /\ lastRead.io = "block"
  /\ lastRead.parse # "ProtocolError"
  /\ lastRead.ret = "Ok"

C35_CompleteRequestsServed ==
  ReadWentThrough =>
    LET ends == FrameEnds(lastRead.buf, 0)
        used == IF ends = <<>> THEN 0 ELSE ends[Len(ends)]
    IN /\ ~StartsWithRequest(conn.incoming)
       /\ conn.incoming = <<>>
            \/ parse_request(conn.incoming).tag = "NotEnoughBytes"
       /\ lastRead.served = Len(ends)
       /\ conn.incoming = SubSeq(lastRead.buf, used + 1, Len(lastRead.buf))
       /\ lastRead.wrote + Len(conn.outgoing) >= 8 * lastRead.served

\* one on_read found a whole request and the start of a second frame: the
\* request was handled, and the partial frame stays in the inbound buffer
C35_Witness ==
  /\ ReadWentThrough
  /\ lastRead.served = 1
  /\ lastRead.parse = "NotEnoughBytes"
  /\ conn.incoming # <<>>


(***************************************************************************)
(* C36: on one Connection responses leave in request order: at any time    *)
(* the bytes already written to the socket followed by the outbound buffer *)
(* equal the concatenation of the encoded responses of all requests parsed *)
(* so far, in the order the requests were parsed, one response per parsed  *)
(* request, across any interleaving of on_read and partial on_write calls. *)
(***************************************************************************)
\* the responses to the requests buf begins with, each encoded on its own,
\* one after the other: [bytes, n], n counting them; map is the store the
\* first of them finds
RECURSIVE Answers(_, _)
Answers(map, buf) ==
  LET result == parse_request(buf) IN
  IF buf = <<>> \/ result.tag # "Ok" THEN [bytes |-> <<>>, n |-> 0]
  ELSE LET h    == handle_and_encode_request(map, result.val[1], <<>>)
           rest == Answers(h.map, SubSeq(buf, result.val[2] + 1, Len(buf)))
       IN [bytes |-> h.buf \o rest.bytes, n |-> 1 + rest.n]

\* what has left the connection or waits to leave it
Sent == tx \o conn.outgoing

\* every step appends to Sent the responses to the requests it has parsed,
\* and nothing else; Sent is empty on a new connection
C36_ResponsesInRequestOrder ==
  /\ Sent = <<>>
  /\ [][LET parsed_now == IF last' = "on_read" /\ lastRead'.io = "block"
                          THEN Answers(MAP, lastRead'.buf)
                          ELSE [bytes |-> <<>>, n |-> 0]
        IN /\ Sent' = Sent \o parsed_now.bytes
           /\ last' = "on_read" => lastRead'.served = parsed_now.n
           /\ Len(tx') >= Len(tx) /\ SubSeq(tx', 1, Len(tx)) = tx
       ]_vars

\* two requests were handled by one on_read whose write was refused, and a
\* later on_write passed on the first byte only
C36_Witness ==
  /\ last = "on_write" /\ lastRead.served = 2
  /\ Len(tx) = 1 /\ conn.outgoing # <<>>
  /\ lastWrite.io = WriteOk(1)


(***************************************************************************)
(* C37: for any list of well-formed request frames r1..rn concatenated in  *)
(* one buffer, followed by arbitrary further bytes, parse_request returns  *)
(* r1 with a consumed count equal to the length of r1 alone, and repeating *)
(* parse-then-drain yields exactly r1..rn in order, each call consuming at *)
(* least 4 bytes.                                                          *)
(***************************************************************************)
C37_FramesParsedInOrder ==
  /\ \A i \in 1..Len(drained) :
       /\ drained[i].tag = "Ok"
       /\ drained[i].val[1] = stream.reqs[i]
       /\ drained[i].val[2] = FrameLen(stream.reqs[i])
       /\ drained[i].val[2] >= 4
  /\ Len(drained) <= Len(stream.reqs)
  /\ stream.buf = Frames(SubSeq(stream.reqs, Len(drained) + 1,
                                Len(stream.reqs))) \o stream.more

\* three requests came out of one buffer: one of MaxArgs arguments, then one
\* without arguments (a frame of 4 bytes); the start of another frame is left
C37_Witness ==
  /\ Len(drained) = 3 /\ Len(stream.reqs) = 3
  /\ Len(stream.reqs[1]) = MaxArgs
  /\ stream.reqs[2] = <<>>
  /\ stream.more = <<0, 0, 0, 1>>
  /\ stream.buf = stream.more


(***************************************************************************)
(* The singly linked List (crates/collections/src/linked_list/mod.rs).     *)
(***************************************************************************)
\* the boxnode! and node! macros: a node that is not linked
boxnode(key, value) == [key |-> key, value |-> value, next |-> None]

\* push_boxed with a slip: the node is not linked to the former head
push_boxed_unlinked(l, boxed) ==
  [head |-> Some([boxed EXCEPT !.next = None]), len |-> l.len + 1]

\* List::push_boxed
push_boxed(l, boxed) ==
  [head |-> Some([boxed EXCEPT !.next = l.head]), len |-> l.len + 1]

\* List::push
push(l, node) == push_boxed(l, node)

\* List::push_from_parts
push_from_parts(l, key, value) == push_boxed(l, boxnode(key, value))

\* List::pop: [l, ret], ret an Option of the node, taken out of the chain
pop(l) ==
  IF l.head = None THEN [l |-> l, ret |-> None]
  ELSE LET node == l.head[1]
       IN [l   |-> [head |-> node.next, len |-> l.len - 1],
           ret |-> Some([node EXCEPT !.next = None])]

\* List::peek: a reference to the head node
peek(l) == l.head

\* List::len
list_len(l) == l.len

\* what Node::eq compares
Entry(node) == [key |-> node.key, value |-> node.value]

\* the keys and values the calls are made with
ListParts == { <<"k1", "v1">>, <<"k2", "v2">>, <<"k1", "v2">> }

\* the nodes given to push: one made by node!, and one that was built inside
\* the crate with a chain of its own
PushNodes ==
  { boxnode("k3", "v3"),
    [key |-> "k2", value |-> "v2", next |-> Some(boxnode("k1", "v1"))] }

ListCalled(op, ret) ==
  /\ lcalls < MaxListCalls
  /\ lcalls' = lcalls + 1
  /\ lcall' = [op |-> op, ret |-> ret, pre |-> list, was |-> pending]

Pushed(node) ==
  /\ pending' = Append(pending, Entry(node))
  /\ pushes' = pushes + 1
  /\ pops' = pops

PushFromParts ==
  \E kv \in ListParts :
    /\ ListCalled("push_from_parts", None)
    /\ list' = push_from_parts(list, kv[1], kv[2])
    /\ Pushed(boxnode(kv[1], kv[2]))
    /\ UNCHANGED notList

Push ==
  \E node \in PushNodes :
    /\ ListCalled("push", None)
    /\ list' = push(list, node)
    /\ Pushed(node)
    /\ UNCHANGED notList

Pop ==
  \E r \in { pop(list) } :
    /\ ListCalled("pop", r.ret)
    /\ list' = r.l
    /\ pops' = IF r.ret = None THEN pops ELSE pops + 1
    /\ pending' = IF r.ret = None THEN pending
                  ELSE SubSeq(pending, 1, Len(pending) - 1)
    /\ UNCHANGED pushes
    /\ UNCHANGED notList

Peek ==
  /\ ListCalled("peek", peek(list))
  /\ UNCHANGED <<list, pending, pushes, pops>>
  /\ UNCHANGED notList

LenCall ==
  /\ ListCalled("len", Some(list_len(list)))
  /\ UNCHANGED <<list, pending, pushes, pops>>
  /\ UNCHANGED notList

ListNext == PushFromParts \/ Push \/ Pop \/ Peek \/ LenCall

ListInit ==
  /\ ListIdle
  /\ DictIdle /\ TableIdle /\ CodecIdle /\ StoreInit /\ ConnInit /\ ServerInit
  /\ RehashIdle

ListSpec == ListInit /\ [][ListNext]_vars

(***************************************************************************)
(* C38: after any sequence of push / push_from_parts and pop calls on the  *)
(* singly linked List, pop returns the most recently pushed entry that has *)
(* not been popped yet (LIFO), returns None exactly when the list is       *)
(* empty, peek returns the entry the next pop would return without         *)
(* changing the list, and len() equals the number of pushes minus the      *)
(* number of pops that returned an entry.                                  *)
(***************************************************************************)
\* the entries of the chain that starts at h, head first
RECURSIVE Chain(_)
Chain(h) == IF h = None THEN <<>> ELSE <<Entry(h[1])>> \o Chain(h[1].next)

Newest(q) == q[Len(q)]

C38_ListIsLifo ==
  /\ list_len(list) = pushes - pops
  /\ Len(Chain(list.head)) = Len(pending)
  /\ \A i \in 1..Len(pending) :
       Chain(list.head)[i] = pending[Len(pending) + 1 - i]
  /\ lcall.op = "pop" =>
       /\ lcall.ret = None <=> lcall.was = <<>>
       /\ lcall.ret = None <=> lcall.pre.head = None
       /\ lcall.ret = None <=> list_len(lcall.pre) = 0
       /\ lcall.ret # None =>
            /\ Entry(lcall.ret[1]) = Newest(lcall.was)
            /\ lcall.ret[1].next = None
            /\ pending = SubSeq(lcall.was, 1, Len(lcall.was) - 1)
  /\ lcall.op = "peek" =>
       /\ list = lcall.pre /\ pending = lcall.was
       /\ lcall.ret = None <=> pop(list).ret = None
       /\ lcall.ret # None =>
            Entry(lcall.ret[1]) = Entry(pop(list).ret[1])
  /\ lcall.op = "len" => lcall.ret = Some(pushes - pops)

\* entries went in through both kinds of push, and the pop just made
\* returned the newest of three, the one given to push, leaving two
C38_Witness ==
  /\ lcall.op = "pop" /\ Len(lcall.was) = 3 /\ pops = 1 /\ pushes = 3
  /\ lcall.ret = Some(boxnode("k3", "v3"))
  /\ lcall.was[1] = Entry(boxnode("k1", "v1"))
  /\ list_len(list) = 2


(***************************************************************************)
(* The Dict of crates/collections/src/hashmap: a rehash moves one whole    *)
(* bucket of the primary table per call.  A node is [key, value]; its next *)
(* field is None in every node a LinkedList<Node> holds.                   *)
(***************************************************************************)
\* hashmap::HashTable::used
used(t) == t.items

\* load_factor_f32, as the fraction whose quotient it returns: 0f32 for a
\* table without buckets
load_factor_f32(t) ==
  IF bucket_count(t) = 0 THEN [num |-> 0, den |-> 1]
  ELSE [num |-> t.items, den |-> bucket_count(t)]

\* `>= 1f32` on that quotient: both numbers are far below 2^24, where the
\* casts to f32 are exact, and x / y >= 1 exactly when x >= y
AtLeastOne(q) == q.num >= q.den

\* the loop of resize: the drained nodes are pushed to the back of the bucket
\* their hash selects under the new mask
RECURSIVE Refill(_, _, _)
Refill(new_buckets, elems, mask) ==
  IF elems = <<>> THEN new_buckets
  ELSE Refill([new_buckets EXCEPT
                 ![BitAnd(hash(Head(elems).key), mask) + 1] =
                   Append(@, Head(elems))],
              Tail(elems), mask)

\* hashmap::HashTable::next_capacity
next_capacity(t) ==
  IF bucket_count(t) = 0 THEN HASHMAP_DEFAULT_BUCKET_SIZE
  ELSE bucket_count(t) * 2

\* hashmap::HashTable::resize
resize(t) ==
  [buckets |-> Refill(EmptyChains(next_capacity(t)), Flatten(t.buckets),
                      next_capacity(t) - 1),
   items   |-> t.items,
   mask    |-> next_capacity(t) - 1]

\* hashmap::HashTable::_insert: [t, old]
hashmap_insert(t, node) ==
  LET i == BitAnd(hash(node.key), t.mask)
      b == t.buckets[i + 1]
      p == FindKey(b, node.key)
  IN IF p # 0
     THEN [t   |-> [t EXCEPT !.buckets[i + 1][p].value = node.value],
           old |-> Some(b[p].value)]
     ELSE [t   |-> [t EXCEPT !.buckets[i + 1] = Append(b, node),
                             !.items = @ + 1],
           old |-> None]

\* hashmap::HashTable::insert_without_resize
insert_without_resize(t, node) ==
  hashmap_insert(IF bucket_count(t) = 0 THEN resize(t) ELSE t, node)

\* the nodes hashmap::HashTable::iter yields, in order: an iterator over a
\* table that counts no items starts on a static empty list and goes on with
\* buckets[1]; Iter::next computes bucket_count() - 1
iter(t) ==
  IF bucket_count(t) = 0
  THEN [panic |-> "attempt to subtract with overflow", nodes |-> <<>>]
  ELSE [panic |-> "",
        nodes |-> IF is_empty(t)
                  THEN Flatten(SubSeq(t.buckets, 2, Len(t.buckets)))
                  ELSE Flatten(t.buckets)]

\* Iterator::find(|node| node.key == key)
find(nodes, key) ==
  IF FindKey(nodes, key) = 0 THEN None ELSE Some(nodes[FindKey(nodes, key)])

RehashOk(d) == [d |-> d, err |-> "", panic |-> ""]
RehashErr(d, e) == [d |-> d, err |-> e, panic |-> ""]
RehashPanic(d, m) == [d |-> d, err |-> "", panic |-> m]

\* the end of try_partial_rehash: the checks of the two tables, then the
\* bucket under rehash_idx goes to the bucket of the same index of the
\* secondary table
MoveBucket(d) ==
  LET i == d.rehash_idx
      bucket_to_move == d.primary.buckets[i + 1]
      moved_items == Len(bucket_to_move)
  IN IF bucket_count(d.primary) <= i
     THEN RehashErr(d, "InvalidTableSize primary")
     ELSE IF bucket_count(d.secondary) <= i
     THEN RehashErr(d, "InvalidTableSize secondary")
     ELSE IF d.primary.items < moved_items
     THEN RehashPanic(d, "attempt to subtract with overflow")
     ELSE RehashOk([d EXCEPT
            !.primary.buckets[i + 1] = <<>>,
            !.primary.items = @ - moved_items,
            !.secondary.buckets[i + 1] = IF @ = <<>> THEN bucket_to_move
                                         ELSE @ \o bucket_to_move,
            !.secondary.items = @ + moved_items,
            !.rehash_idx = @ + 1])

\* hashmap::Dict::try_partial_rehash: [d, err, panic]
try_partial_rehash(d) ==
  IF d.rehash_idx = -1
  THEN IF ~AtLeastOne(load_factor_f32(d.primary))
       THEN RehashErr(d, "IncorrectLoadFactor")
       ELSE MoveBucket([d EXCEPT !.rehash_idx = 0])
  ELSE IF d.rehash_idx < -1 \/ d.rehash_idx > bucket_count(d.primary)
  THEN RehashErr(d, "InvalidRehashIndex")
  ELSE IF d.rehash_idx = bucket_count(d.primary)
  THEN IF used(d.primary) # 0
       THEN RehashPanic(d, "Moved all buckets from primary, to secondary, but primary still has keys")
       ELSE RehashOk(
              [primary    |-> d.secondary,
               secondary  |-> hashmap_new_with_buckets(
                                2 * bucket_count(d.secondary)),
               rehash_idx |-> -1])
  ELSE MoveBucket(d)

\* the first statement of insert and get: try_partial_rehash().unwrap() when
\* the primary table is full or a rehash is under way
RehashStep(d) ==
  IF AtLeastOne(load_factor_f32(d.primary)) \/ d.rehash_idx # -1
  THEN try_partial_rehash(d)
  ELSE RehashOk(d)

Unwrap(r) ==
  IF r.panic # "" THEN r.panic
  ELSE IF r.err # "" THEN "called Result::unwrap() on an Err value"
  ELSE ""

\* what insert does after the rehash step
InsertAfter(d, node) ==
  IF d.rehash_idx = -1
  THEN [d   |-> [d EXCEPT !.primary = insert_without_resize(@, node).t],
        ret |-> insert_without_resize(d.primary, node).old, panic |-> ""]
  ELSE [d   |-> [d EXCEPT !.secondary = insert_without_resize(@, node).t],
        ret |-> insert_without_resize(d.secondary, node).old, panic |-> ""]

\* hashmap::Dict::insert: [d, ret, panic]
RehashDictInsert(r, key, value) ==
  IF Unwrap(r) # "" THEN [d |-> r.d, ret |-> None, panic |-> Unwrap(r)]
  ELSE InsertAfter(r.d, [key |-> key, value |-> value])

\* hashmap::Dict::get: [d, ret, panic]
RehashDictGet(r, key) ==
  IF Unwrap(r) # "" THEN [d |-> r.d, ret |-> None, panic |-> Unwrap(r)]
  ELSE IF iter(r.d.primary).panic # ""
  THEN [d |-> r.d, ret |-> None, panic |-> iter(r.d.primary).panic]
  ELSE IF find(iter(r.d.primary).nodes, key) # None
  THEN [d |-> r.d, ret |-> find(iter(r.d.primary).nodes, key), panic |-> ""]
  ELSE IF iter(r.d.secondary).panic # ""
  THEN [d |-> r.d, ret |-> None, panic |-> iter(r.d.secondary).panic]
  ELSE [d |-> r.d, ret |-> find(iter(r.d.secondary).nodes, key),
        panic |-> ""]

\* the values test::it_works inserts (the key itself), and another one
RehashValues(key) == { key, "a" }

RehashInsert ==
  /\ rpanic = "" /\ rcalls < MaxRehashCalls
  /\ \E key \in RehashKeys :
       \E value \in RehashValues(key) :
         \E o \in { RehashDictInsert(RehashStep(rdict), key, value) } :
           /\ rdict' = o.d
           /\ rpanic' = o.panic
           /\ rexpect' = IF o.panic = ""
                         THEN [rexpect EXCEPT ![key] = Some(value)]
                         ELSE rexpect
           /\ rcall' = [op |-> "insert", key |-> key, ret |-> o.ret]
  /\ rcalls' = rcalls + 1
  /\ UNCHANGED notRehash

RehashGet ==
  /\ rpanic = "" /\ rcalls < MaxRehashCalls
  /\ \E key \in RehashKeys :
       \E o \in { RehashDictGet(RehashStep(rdict), key) } :
         /\ rdict' = o.d
         /\ rpanic' = o.panic
         /\ rcall' = [op |-> "get", key |-> key, ret |-> o.ret]
  /\ rcalls' = rcalls + 1
  /\ UNCHANGED rexpect
  /\ UNCHANGED notRehash

RehashNext == RehashInsert \/ RehashGet

RehashInit ==
  /\ RehashIdle
  /\ DictIdle /\ TableIdle /\ CodecIdle /\ StoreInit /\ ConnInit /\ ServerInit
  /\ ListIdle

RehashSpec == RehashInit /\ [][RehashNext]_vars

(***************************************************************************)
(* C39: in the bucket-budgeted Dict (rehash_idx, one whole bucket moved    *)
(* per call), for any sequence of insert and get calls starting from       *)
(* Dict::default(), get(k) returns the value of the most recent            *)
(* insert(k, _), each key has at most one entry across the primary and     *)
(* secondary tables, and try_partial_rehash never returns an error (its    *)
(* unwrap never panics).                                                   *)
(***************************************************************************)
C39_NeverErrs == rpanic = ""

C39_LatestValueOneEntry ==
  /\ C39_NeverErrs
  /\ \A k \in RehashKeys :
       CountKey(rdict.primary, k) + CountKey(rdict.secondary, k) <= 1
  /\ rcall.op = "get" =>
       rcall.ret = IF rexpect[rcall.key] = None THEN None
                   ELSE Some([key   |-> rcall.key,
                              value |-> rexpect[rcall.key][1]])


=============================================================================
